---- MODULE Spec2Model ----
(***************************************************************************)
(* Model of the RAG module of ubc-genai-toolkit-rag: the RAGModule facade  *)
(* (configuration validation, two-phase creation, delegation) and the      *)
(* QdrantProvider (chunking, embedding, upsert, search, scroll, deletes),  *)
(* running against a model of the Embedding Client and of the Qdrant       *)
(* collection it talks to.                                                 *)
(*                                                                         *)
(* Every await of the source is a suspension point: an operation is a      *)
(* sequence of actions, one per stretch of code between two awaits.        *)
(***************************************************************************)
EXTENDS Naturals, Integers, Sequences, FiniteSets, TLC

(***************************************************************************)
(* Bounds of the model.                                                    *)
(***************************************************************************)
\* the longest document of the model splits into this many chunks
MaxChunks == 2
\* uuidv4() is called at most this many times in a behaviour: the callers
\* call addDocument only while ids are left for every chunk of the document
MaxId == 2
\* the collection never holds more points than this: the callers call
\* addDocument only while it has room for every chunk of the document
MaxPoints == 3

(***************************************************************************)
(* Program constants.                                                      *)
(***************************************************************************)
\* simpleChunker(text, chunkSize = 300, overlap = 50)
DefaultChunkSize == 300
DefaultOverlap == 50
\* defaultRetrievalLimit: config.defaultRetrievalLimit ?? 5, and options.limit ?? 5
DefaultLimit == 5
\* scroll page size: limit: 250
ScrollLimit == 250
\* the value of embeddings[i] for which !embedding holds (undefined)
Absent == 0

(***************************************************************************)
(* Generic helpers: records as JavaScript objects.                         *)
(***************************************************************************)
Min(a, b) == IF a <= b THEN a ELSE b
Max(a, b) == IF a >= b THEN a ELSE b

\* the object without any own property: {}
EmptyObj == <<>>

\* own-property test
Has(obj, k) == k \in DOMAIN obj

\* the object with property k removed (delete obj.k on a copy)
Drop(obj, k) == [x \in (DOMAIN obj) \ {k} |-> obj[x]]

\* object spread {...a, ...b}: b's properties override a's
Spread(a, b) ==
    [k \in (DOMAIN a) \cup (DOMAIN b) |-> IF k \in DOMAIN b THEN b[k] ELSE a[k]]

\* a text of n characters (characters are small naturals)
MkText(n) == [i \in 1..n |-> i % 3]

\* String.prototype.substring(start, end) on a 0-based text: both indexes are
\* clamped to [0, length] and swapped when start > end
Substring(text, start, end) ==
    LET s == Max(0, Min(start, Len(text)))
        e == Max(0, Min(end, Len(text)))
        lo == Min(s, e)
        hi == Max(s, e)
    IN  SubSeq(text, lo + 1, hi)

(***************************************************************************)
(* simpleChunker (rag-module.ts 222-236).                                  *)
(***************************************************************************)
RECURSIVE ChunkLoop(_, _, _, _, _)
ChunkLoop(text, chunkSize, overlap, i, chunks) ==
    IF ~(i < Len(text)) THEN chunks
    ELSE LET end == Min(i + chunkSize, Len(text))
             pushed == Append(chunks, Substring(text, i, end))
         IN  IF end = Len(text) THEN pushed
             ELSE ChunkLoop(text, chunkSize, overlap, i + chunkSize - overlap, pushed)

simpleChunker(text, chunkSize, overlap) ==
    IF Len(text) <= chunkSize THEN <<text>>
    ELSE ChunkLoop(text, chunkSize, overlap, 0, <<>>)

(***************************************************************************)
(* Errors.  An Error is the sequence of the parts of its message: wrapping *)
(* context + ': ' + error.message puts the context in front.              *)
(***************************************************************************)
NoError == <<>>
MkError(msg) == <<msg>>
Wrap(context, error) == <<context>> \o error

\* messages of the errors the backends raise
ConnRefused == "ECONNREFUSED"
NotFoundMsg == "Not found: Collection docs does not exist"
AlreadyExistsMsg == "Conflict: Collection docs already exists"
BackendMessages == {ConnRefused, NotFoundMsg, AlreadyExistsMsg}

\* /not found/i.test(message), over the messages of the model
MatchesNotFound(msg) == msg \in {NotFoundMsg}

\* messages of the errors the module itself raises
ErrNoProvider == "RAG provider type must be specified in config."
ErrNoQdrantConfig == "qdrantConfig must be provided when provider is qdrant."
ErrNoCollectionName == "qdrantConfig.collectionName must be specified."
ErrNoVectorSize == "qdrantConfig.vectorSize must be specified."
ErrNoDistanceMetric == "qdrantConfig.distanceMetric must be specified."
ErrNoEmbeddingsConfig == "embeddingsConfig must be provided to handle internal embedding generation."
ErrUnsupportedProvider(provider) == "Unsupported RAG provider: " \o provider
ErrNotInitialized == "RAGModule has not been initialized. Call RAGModule.create() first."
ErrQueryEmbedding == "Failed to generate embedding for the query text."
ErrNotAFunction == "TypeError: getDocumentsByMetadata is not a function"
CtxModuleInit == "RAGModule initialization failed"
CtxQdrantInit == "Qdrant initialization failed"
CtxUpsert == "Qdrant upsert failed"
CtxSearch == "Qdrant search failed"
CtxScroll == "Qdrant scroll failed"
CtxDeleteIds == "Qdrant deletion by ID failed"
CtxDeleteFilter == "Qdrant deletion by filter failed"
CtxDeleteCollection == "Qdrant collection deletion failed"

ConfigErrorMessages ==
    {ErrNoProvider, ErrNoQdrantConfig, ErrNoCollectionName, ErrNoVectorSize,
     ErrNoDistanceMetric, ErrNoEmbeddingsConfig}

(***************************************************************************)
(* Inputs of the model.                                                    *)
(***************************************************************************)
\* the length of a text that simpleChunker splits into k chunks
LenForChunks(k) ==
    IF k = 1 THEN 2
    ELSE DefaultChunkSize + (k - 2) * (DefaultChunkSize - DefaultOverlap) + 1

\* document contents: the empty text, a short text, and texts of 2..MaxChunks chunks
Texts == {MkText(0)} \cup {MkText(LenForChunks(k)) : k \in 1..MaxChunks}

\* caller metadata; the last one carries the keys the payload itself uses
Metadatas ==
    {EmptyObj,
     [source |-> "a.txt"],
     [source |-> "b.txt", content |-> MkText(1), chunkIndex |-> 7]}

\* metadata filters of the bulk operations
Filters == {EmptyObj, [source |-> "a.txt"], [source |-> "b.txt", chunkIndex |-> 0]}

\* query texts
Queries == {MkText(2)}

\* per-call retrieval options
OptionInputs == {EmptyObj, [limit |-> 1, scoreThreshold |-> 2], [filter |-> [source |-> "a.txt"]]}

\* a complete QdrantConfig and RAGConfig
QdrantCfg ==
    [url |-> "http://localhost:6333", collectionName |-> "docs",
     vectorSize |-> 1, distanceMetric |-> "Cosine"]
FullConfig ==
    [provider |-> "qdrant", qdrantConfig |-> QdrantCfg,
     embeddingsConfig |-> [providerType |-> "fastembed"]]

\* a custom chunking function a caller may configure: the two halves of the
\* text
CustomChunker(text) ==
    IF Len(text) <= 1 THEN <<text>>
    ELSE <<Substring(text, 0, Len(text) \div 2), Substring(text, Len(text) \div 2, Len(text))>>

\* a complete configuration that also sets the retrieval defaults and, as
\* chunkingConfig, the function CustomChunker
TunedConfig ==
    Spread(FullConfig, [defaultRetrievalLimit |-> 2, defaultScoreThreshold |-> 1,
                        chunkingConfig |-> "CustomChunker"])

\* the configurations create() is called with: the complete one, one per
\* missing top-level field, one per missing QdrantConfig field, and one whose
\* provider names no supported backend
ConfigInputs ==
    {FullConfig}
    \cup {Drop(FullConfig, k) : k \in {"provider", "qdrantConfig", "embeddingsConfig"}}
    \cup {[FullConfig EXCEPT !.qdrantConfig = Drop(QdrantCfg, k)] : k \in DOMAIN QdrantCfg}
    \cup {[FullConfig EXCEPT !.provider = "pinecone"]}

(***************************************************************************)
(* RAGModule.validateAndBuildConfig (rag-module.ts 31-76).                 *)
(***************************************************************************)
\* !obj.k for a string or object property: missing or the empty string
Falsy(obj, k) == ~Has(obj, k) \/ obj[k] = ""

\* the message of the error validateAndBuildConfig throws, "" when it returns
ValidationError(config) ==
    LET isQdrant == Has(config, "provider") /\ config.provider = "qdrant"
        hasQ == Has(config, "qdrantConfig")
    IN  IF Falsy(config, "provider") THEN ErrNoProvider
        ELSE IF isQdrant /\ ~hasQ THEN ErrNoQdrantConfig
        ELSE IF isQdrant /\ hasQ /\ Falsy(config.qdrantConfig, "collectionName")
            THEN ErrNoCollectionName
        ELSE IF isQdrant /\ hasQ /\ ~Has(config.qdrantConfig, "vectorSize")
            THEN ErrNoVectorSize
        ELSE IF isQdrant /\ hasQ /\ Falsy(config.qdrantConfig, "distanceMetric")
            THEN ErrNoDistanceMetric
        ELSE IF ~Has(config, "embeddingsConfig") THEN ErrNoEmbeddingsConfig
        ELSE ""

\* the configuration validateAndBuildConfig returns
validateAndBuildConfig(config) ==
    Spread(config,
           [debug |-> IF Has(config, "debug") THEN config.debug ELSE FALSE,
            defaultRetrievalLimit |->
                IF Has(config, "defaultRetrievalLimit")
                THEN config.defaultRetrievalLimit ELSE DefaultLimit])

(***************************************************************************)
(* The Embedding Client.  embed(texts) answers one entry per text, a vector*)
(* or Absent; the vector of a text is a function of the text.              *)
(***************************************************************************)
EmbeddingOf(text) == (Len(text) % 2) + 1

\* every answer embed(chunks) may give: any subset of the entries is Absent
EmbedResults(chunks) ==
    {[i \in 1..Len(chunks) |-> IF i \in F THEN Absent ELSE EmbeddingOf(chunks[i])] :
        F \in SUBSET (1..Len(chunks))}

(***************************************************************************)
(* The Vector Store: one collection of points <<id, vector, payload>>.     *)
(***************************************************************************)
\* the store serves at most this many points per scroll page
BackendPageCap == 1

\* the cursor value null / undefined
Null == -1

\* JavaScript truthiness of a cursor: null, undefined and 0 are falsy
Truthy(cursor) == cursor # Null /\ cursor # 0

NoCollection == [exists |-> FALSE, size |-> 0, distance |-> ""]

\* a payload equals a key/value filter on every key of the filter
Matches(payload, filter) ==
    \A k \in DOMAIN filter : Has(payload, k) /\ payload[k] = filter[k]

\* the keys of the objects in use, in the order Object.entries lists them
EntryKeys == <<"source", "content", "chunkIndex">>

\* Object.entries(obj): the keys of obj, in order
Entries(obj) ==
    LET Own(k) == k \in DOMAIN obj
    IN  SelectSeq(EntryKeys, Own)

\* a faulty MustFilter: only the first entry of the filter becomes a condition
MustFilter_FirstEntry(filter) ==
    LET keys == Entries(filter)
    IN  [must |-> [i \in 1..Min(1, Len(keys)) |->
                        [key |-> keys[i], match |-> [value |-> filter[keys[i]]]]]]

\* the Qdrant filter getDocumentsByMetadata and deleteDocumentsByMetadata
\* build (rag-module.ts 405-410, 466-480): one must-condition per entry
MustFilter(filter) ==
    LET keys == Entries(filter)
    IN  [must |-> [i \in 1..Len(keys) |->
                        [key |-> keys[i], match |-> [value |-> filter[keys[i]]]]]]

\* the store's reading of a Qdrant filter: every must-condition holds
Satisfies(payload, qfilter) ==
    \A i \in 1..Len(qfilter.must) :
        LET c == qfilter.must[i]
        IN  Has(payload, c.key) /\ payload[c.key] = c.match.value

\* the payload of a point, the empty object for a point stored without one
PayloadOf(p) == IF Has(p, "payload") THEN p.payload ELSE EmptyObj

\* points another client of the store has written to the collection, under
\* integer ids: one without payload, one whose payload is its content alone,
\* one whose payload has no content
ForeignNoPayload == [id |-> 0, vector |-> 1]
ForeignOnlyContent == [id |-> 100, vector |-> 2, payload |-> [content |-> MkText(1)]]
ForeignNoContent == [id |-> 101, vector |-> 1, payload |-> [source |-> "a.txt"]]
ForeignPoints == {ForeignNoPayload, ForeignOnlyContent, ForeignNoContent}

\* what the collection holds when the program starts, in the order in which
\* the store scans it; the order is the store's own, and the point of id 0
\* need not be the first
ForeignStores ==
    {<<>>, <<ForeignNoPayload, ForeignOnlyContent>>, <<ForeignNoContent>>,
     <<ForeignOnlyContent, ForeignNoPayload>>}

\* index of the point with this id in pts, 0 when there is none
IndexOfId(pts, id) ==
    IF \E i \in 1..Len(pts) : pts[i].id = id
    THEN CHOOSE i \in 1..Len(pts) : pts[i].id = id
    ELSE 0

\* the points of an upsert written one after the other: a point whose id is
\* stored is replaced in place, others are added
RECURSIVE Upserted(_, _)
Upserted(pts, new) ==
    IF new = <<>> THEN pts
    ELSE LET p == Head(new)
             i == IndexOfId(pts, p.id)
         IN  Upserted(IF i = 0 THEN Append(pts, p) ELSE [pts EXCEPT ![i] = p],
                      Tail(new))

\* upsert: the stores that can result. The points stored before keep their
\* places relative to each other; where the store scans a point of a new id,
\* among them and among the other new points, is the store's own choice (the
\* ids are random, rag-module.ts 322)
StoreUpsert(pts, new) ==
    LET all == Upserted(pts, new)
        n == Len(all)
    IN  {s \in {[i \in 1..n |-> all[f[i]]] : f \in Permutations(1..n)} :
            \A i, j \in 1..Len(pts) :
                i < j => IndexOfId(s, pts[i].id) < IndexOfId(s, pts[j].id)}

\* the points of pts at the positions in keep, in order
PointsAt(pts, keep) ==
    LET F[i \in 0..Len(pts)] ==
            IF i = 0 THEN <<>>
            ELSE IF i \in keep THEN Append(F[i - 1], pts[i]) ELSE F[i - 1]
    IN  F[Len(pts)]

StoreDeleteIds(pts, ids) ==
    PointsAt(pts, {i \in 1..Len(pts) : \A j \in 1..Len(ids) : ids[j] # pts[i].id})

StoreDeleteFilter(pts, qfilter) ==
    PointsAt(pts, {i \in 1..Len(pts) : ~Satisfies(PayloadOf(pts[i]), qfilter)})

\* one page of a scroll: the matching points from the cursor on, and the id
\* of the first point of the next page (Null when there is none)
StoreScroll(pts, qfilter, limit, offset) ==
    LET matching == PointsAt(pts, {i \in 1..Len(pts) : Satisfies(PayloadOf(pts[i]), qfilter)})
        start == IF offset = Null THEN 1
                 ELSE IF IndexOfId(matching, offset) = 0 THEN Len(matching) + 1
                 ELSE IndexOfId(matching, offset)
        size == Min(limit, BackendPageCap)
        last == Min(start + size - 1, Len(matching))
    IN  [points |-> SubSeq(matching, start, last),
         next_page_offset |->
            IF last < Len(matching) THEN matching[last + 1].id ELSE Null]

\* similarity of two vectors
Score(q, v) == IF q = v THEN 2 ELSE 1

\* insert a hit into a list ordered by non-increasing score, after its equals
RECURSIVE InsertHit(_, _)
InsertHit(hits, h) ==
    IF hits = <<>> THEN <<h>>
    ELSE IF Head(hits).score >= h.score THEN <<Head(hits)>> \o InsertHit(Tail(hits), h)
    ELSE <<h>> \o hits

\* search: the points by non-increasing score, those under the threshold
\* dropped, at most limit of them; payload included, vector not
StoreSearch(pts, request) ==
    LET Hit(p) == Spread([id |-> p.id, score |-> Score(request.vector, p.vector)],
                         IF Has(p, "payload") THEN [payload |-> p.payload] ELSE EmptyObj)
        Ranked[i \in 0..Len(pts)] ==
            IF i = 0 THEN <<>> ELSE InsertHit(Ranked[i - 1], Hit(pts[i]))
        ranked == Ranked[Len(pts)]
        kept == PointsAt(ranked,
                         {i \in 1..Len(ranked) :
                            \/ ~Has(request, "score_threshold")
                            \/ ranked[i].score >= request.score_threshold})
    IN  SubSeq(kept, 1, Min(request.limit, Len(kept)))

(***************************************************************************)
(* QdrantProvider.addDocument, step 3 (rag-module.ts 311-331): one point   *)
(* per chunk that has an embedding; uuidv4() answers the next unused id.   *)
(***************************************************************************)
\* a faulty uuidv4: the id does not change from call to call
uuidv4_Constant(next) == 1

uuidv4(next) == next

\* a faulty MkPoint: the caller's metadata is spread last and wins
MkPoint_MetadataLast(id, embedding, metadata, chunk, i) ==
    [id |-> id, vector |-> embedding,
     payload |-> Spread([content |-> chunk, chunkIndex |-> i], metadata)]

MkPoint(id, embedding, metadata, chunk, i) ==
    [id |-> id, vector |-> embedding,
     payload |-> Spread(metadata, [content |-> chunk, chunkIndex |-> i])]

\* a faulty BuildPoints: the id is recorded before the embedding is tested
BuildPoints_IdBeforeTest(chunks, embeddings, metadata, firstId) ==
    LET F[n \in 0..Len(chunks)] ==
            IF n = 0 THEN [points |-> <<>>, ids |-> <<>>, next |-> firstId]
            ELSE LET prev == F[n - 1]
                     embedding == IF n <= Len(embeddings) THEN embeddings[n] ELSE Absent
                     chunkId == uuidv4(prev.next)
                 IN  IF embedding = Absent
                     THEN [prev EXCEPT !.ids = Append(@, chunkId), !.next = @ + 1]
                     ELSE [points |-> Append(prev.points,
                                             MkPoint(chunkId, embedding, metadata,
                                                     chunks[n], n - 1)),
                           ids |-> Append(prev.ids, chunkId),
                           next |-> prev.next + 1]
    IN  F[Len(chunks)]

\* a faulty BuildPoints: a chunk without embedding is not skipped
BuildPoints_NoSkip(chunks, embeddings, metadata, firstId) ==
    LET F[n \in 0..Len(chunks)] ==
            IF n = 0 THEN [points |-> <<>>, ids |-> <<>>, next |-> firstId]
            ELSE LET prev == F[n - 1]
                     embedding == IF n <= Len(embeddings) THEN embeddings[n] ELSE Absent
                     chunkId == uuidv4(prev.next)
                 IN  [points |-> Append(prev.points,
                                        MkPoint(chunkId, embedding, metadata,
                                                chunks[n], n - 1)),
                      ids |-> Append(prev.ids, chunkId),
                      next |-> prev.next + 1]
    IN  F[Len(chunks)]

\* the loop over the chunks; index i of the source is position i + 1 here
BuildPoints(chunks, embeddings, metadata, firstId) ==
    LET F[n \in 0..Len(chunks)] ==
            IF n = 0 THEN [points |-> <<>>, ids |-> <<>>, next |-> firstId]
            ELSE LET prev == F[n - 1]
                     embedding == IF n <= Len(embeddings) THEN embeddings[n] ELSE Absent
                     chunkId == uuidv4(prev.next)
                 IN  IF embedding = Absent THEN prev
                     ELSE [points |-> Append(prev.points,
                                             MkPoint(chunkId, embedding, metadata,
                                                     chunks[n], n - 1)),
                           ids |-> Append(prev.ids, chunkId),
                           next |-> prev.next + 1]
    IN  F[Len(chunks)]

(***************************************************************************)
(* QdrantProvider.retrieveContext, step 3 (rag-module.ts 375-387).         *)
(***************************************************************************)
\* a faulty MapHit: the metadata is an empty object when nothing remains
MapHit_EmptyMetadata(hit) ==
    LET hasPayload == Has(hit, "payload")
        content == IF hasPayload /\ Has(hit.payload, "content")
                   THEN hit.payload.content ELSE MkText(0)
        metadata == IF hasPayload THEN Drop(hit.payload, "content") ELSE EmptyObj
    IN  [content |-> content, score |-> hit.score, metadata |-> metadata]

MapHit(hit) ==
    LET hasPayload == Has(hit, "payload")
        content == IF hasPayload /\ Has(hit.payload, "content")
                   THEN hit.payload.content ELSE MkText(0)
        metadata == IF hasPayload THEN Drop(hit.payload, "content") ELSE EmptyObj
    IN  IF DOMAIN metadata # {}
        THEN [content |-> content, score |-> hit.score, metadata |-> metadata]
        ELSE [content |-> content, score |-> hit.score]

\* a faulty MapHits: the hits are mapped last to first
MapHits_Reversed(searchResult) ==
    [i \in 1..Len(searchResult) |-> MapHit(searchResult[Len(searchResult) + 1 - i])]

MapHits(searchResult) == [i \in 1..Len(searchResult) |-> MapHit(searchResult[i])]

\* getDocumentsByMetadata's result mapping (rag-module.ts 426-431); a
\* property whose value is undefined is left out
MapRecord(point) ==
    LET content == IF Has(PayloadOf(point), "content")
                   THEN [content |-> point.payload.content] ELSE EmptyObj
        metadata == IF Has(point, "payload") THEN [metadata |-> point.payload] ELSE EmptyObj
    IN  Spread(Spread([id |-> point.id, vector |-> point.vector], content), metadata)

MapRecords(allPoints) == [i \in 1..Len(allPoints) |-> MapRecord(allPoints[i])]

\* a faulty FinalOptions: the configured defaults win over the per-call options
FinalOptions_DefaultsWin(options, cfg) ==
    LET limit == IF Has(cfg, "defaultRetrievalLimit")
                 THEN [limit |-> cfg.defaultRetrievalLimit]
                 ELSE IF Has(options, "limit") THEN [limit |-> options.limit] ELSE EmptyObj
        threshold == IF Has(cfg, "defaultScoreThreshold")
                     THEN [scoreThreshold |-> cfg.defaultScoreThreshold]
                     ELSE IF Has(options, "scoreThreshold")
                          THEN [scoreThreshold |-> options.scoreThreshold]
                          ELSE EmptyObj
        filter == IF Has(options, "filter") THEN [filter |-> options.filter] ELSE EmptyObj
    IN  Spread(Spread(limit, threshold), filter)

\* RAGModule.retrieveContext's finalOptions (rag-module.ts 168-172); a
\* property whose value is undefined is left out
FinalOptions(options, cfg) ==
    LET limit == IF Has(options, "limit") THEN [limit |-> options.limit]
                 ELSE IF Has(cfg, "defaultRetrievalLimit")
                      THEN [limit |-> cfg.defaultRetrievalLimit] ELSE EmptyObj
        threshold == IF Has(options, "scoreThreshold")
                     THEN [scoreThreshold |-> options.scoreThreshold]
                     ELSE IF Has(cfg, "defaultScoreThreshold")
                          THEN [scoreThreshold |-> cfg.defaultScoreThreshold]
                          ELSE EmptyObj
        filter == IF Has(options, "filter") THEN [filter |-> options.filter] ELSE EmptyObj
    IN  Spread(Spread(limit, threshold), filter)

\* the search request of QdrantProvider.retrieveContext (rag-module.ts 363-370)
SearchRequest(queryVector, options) ==
    Spread([vector |-> queryVector,
            limit |-> IF Has(options, "limit") THEN options.limit ELSE DefaultLimit,
            with_payload |-> TRUE, with_vector |-> FALSE],
           IF Has(options, "scoreThreshold")
           THEN [score_threshold |-> options.scoreThreshold] ELSE EmptyObj)

\* the do-while loop of getDocumentsByMetadata (rag-module.ts 403-422) on a
\* collection that does not change meanwhile: all the points it gathers
RECURSIVE ScrollLoop(_, _, _, _)
ScrollLoop(pts, filter, offset, allPoints) ==
    LET response == StoreScroll(pts, MustFilter(filter), ScrollLimit, offset)
        gathered == allPoints \o response.points
    IN  IF Truthy(response.next_page_offset)
        THEN ScrollLoop(pts, filter, response.next_page_offset, gathered)
        ELSE gathered

\* what getDocumentsByMetadata(filter) returns on that collection
DocumentsByMetadata(pts, filter) == MapRecords(ScrollLoop(pts, filter, Null, <<>>))

(***************************************************************************)
(* State.                                                                  *)
(***************************************************************************)
VARIABLES
    collection,       \* the Qdrant collection: exists, vector size, distance
    points,           \* the points of the collection, in scan order
    nextId,           \* the next value uuidv4() answers
    constructed,      \* a RAGModule instance has been constructed
    config,           \* RAGModule.config
    isInitialized,    \* RAGModule.isInitialized
    embeddingsModule, \* RAGModule.embeddingsModule is set
    ragProvider,      \* RAGModule.ragProvider is set
    provState,        \* lifecycle of the module's provider (inner) and of a
                      \* provider constructed on its own (direct)
    scenario,         \* what the callers of this behaviour do (see Scenarios)
    active,           \* the callers that run
    pc,               \* where each caller's operation is suspended
    call,             \* each caller's current (or last) operation and arguments
    loc,              \* the locals that live across the awaits
    res,              \* the outcome of the current (or last) operation
    ncalls            \* calls the operation made: embedding setup, embed, store

vars == <<collection, points, nextId, constructed, config, isInitialized,
          embeddingsModule, ragProvider, provState, scenario, active, pc, call, loc,
          res, ncalls>>

storeVars == <<collection, points>>
moduleVars == <<constructed, config, isInitialized, embeddingsModule, ragProvider>>

Tasks == {"t1", "t2"}

\* creation: create() with any configuration, and calls on the module until
\*           it is Ready;
\* facade:   create() with a complete configuration, then any operation on
\*           the module;
\* provider: any operation on a QdrantProvider constructed on its own;
\* parallelAdd:  create() with a complete configuration, then two callers
\*               that call addDocument on the module at the same time;
\* parallelInit: two callers that call initialize() of a provider at the
\*               same time.
Scenarios == {"creation", "facade", "provider", "parallelAdd", "parallelInit"}

\* the scenarios with two callers
ParallelScenarios == {"parallelAdd", "parallelInit"}

\* the scenarios whose callers call a provider constructed on its own
ProviderScenarios == {"provider", "parallelInit"}

NoCall ==
    [op |-> "none", via |-> "none", config |-> EmptyObj, content |-> <<>>,
     metadata |-> EmptyObj, query |-> <<>>, options |-> EmptyObj, ids |-> <<>>,
     filter |-> EmptyObj, seq |-> 0]
NoLoc == [embeddings |-> <<>>, points |-> <<>>, ids |-> <<>>, request |-> EmptyObj,
          offset |-> Null, acc |-> <<>>, result |-> "", error |-> NoError]
NoRes == [status |-> "none", value |-> <<>>, error |-> NoError]
Pending == [status |-> "pending", value |-> <<>>, error |-> NoError]
NoCalls == [setup |-> 0, embed |-> 0, store |-> 0]

Ok(value) == [status |-> "ok", value |-> value, error |-> NoError]
Failed(error) == [status |-> "error", value |-> <<>>, error |-> error]

\* the lifecycle state of the RAGModule instance
FacadeState ==
    IF ~constructed THEN "None"
    ELSE IF isInitialized THEN "Ready"
    ELSE IF \E t \in Tasks : call[t].op = "create" /\ pc[t] # "idle" THEN "Initializing"
    ELSE "Uninitialized"

\* the QdrantConfig of the provider an operation runs on
ProviderConfig(t) == IF call[t].via = "facade" THEN config.qdrantConfig ELSE QdrantCfg

\* which provider an operation runs on
ProviderOf(t) == IF call[t].via = "facade" THEN "inner" ELSE "direct"

\* a collection of the configured name that another client created with
\* another vector size and another distance
ForeignCollection ==
    [exists |-> TRUE, size |-> QdrantCfg.vectorSize + 1, distance |-> "Euclid"]

\* the state after construction, the callers following one of the scenarios
InitIn(scenarios) ==
    /\ scenario \in scenarios
    /\ collection \in {NoCollection,
                       [exists |-> TRUE, size |-> QdrantCfg.vectorSize,
                        distance |-> QdrantCfg.distanceMetric]}
                      \cup (IF scenario = "parallelInit" THEN {ForeignCollection} ELSE {})
    /\ points \in IF collection.exists /\ scenario = "provider"
                  THEN ForeignStores ELSE {<<>>}
    /\ nextId = 1
    /\ constructed = FALSE
    /\ config = EmptyObj
    /\ isInitialized = FALSE
    /\ embeddingsModule = FALSE
    /\ ragProvider = FALSE
    /\ provState = [inner |-> "Uninitialized", direct |-> "Uninitialized"]
    /\ active = IF scenario \in ParallelScenarios THEN Tasks ELSE {"t1"}
    /\ pc = [t \in Tasks |-> "idle"]
    /\ call = [t \in Tasks |-> NoCall]
    /\ loc = [t \in Tasks |-> NoLoc]
    /\ res = [t \in Tasks |-> NoRes]
    /\ ncalls = [t \in Tasks |-> NoCalls]

Init == InitIn(Scenarios)

(***************************************************************************)
(* Steps of a caller.                                                      *)
(***************************************************************************)
Idle(t) == t \in active /\ pc[t] = "idle"
At(t, label) == t \in active /\ pc[t] = label

\* the operation begins and completes at once; seq tells the call from the
\* caller's call before it, which may have been the same call with the same
\* outcome
Complete(t, c, outcome) ==
    /\ call' = [call EXCEPT ![t] = [c EXCEPT !.seq = 1 - call[t].seq]]
    /\ pc' = [pc EXCEPT ![t] = "idle"]
    /\ loc' = [loc EXCEPT ![t] = NoLoc]
    /\ res' = [res EXCEPT ![t] = outcome]
    /\ ncalls' = [ncalls EXCEPT ![t] = NoCalls]

\* the operation begins and suspends at its first await
Suspend(t, c, label, locals, n) ==
    /\ call' = [call EXCEPT ![t] = c]
    /\ pc' = [pc EXCEPT ![t] = label]
    /\ loc' = [loc EXCEPT ![t] = locals]
    /\ res' = [res EXCEPT ![t] = Pending]
    /\ ncalls' = [ncalls EXCEPT ![t] = n]

\* a suspended operation completes, its locals being these
Finish(t, outcome, locals) ==
    /\ pc' = [pc EXCEPT ![t] = "idle"]
    /\ loc' = [loc EXCEPT ![t] = locals]
    /\ res' = [res EXCEPT ![t] = outcome]
    /\ UNCHANGED <<call, ncalls>>

\* a suspended operation completes
Return(t, outcome) == Finish(t, outcome, loc[t])

\* a suspended operation goes on to its next await, making one more call
Proceed(t, label, locals, kind) ==
    /\ pc' = [pc EXCEPT ![t] = label]
    /\ loc' = [loc EXCEPT ![t] = locals]
    /\ ncalls' = [ncalls EXCEPT ![t][kind] = @ + 1]
    /\ UNCHANGED <<call, res>>

\* the errors a store call on the configured collection can raise: the
\* transport may fail at any time, and the store refuses a missing collection
StoreErrors == {ConnRefused} \cup (IF collection.exists THEN {} ELSE {NotFoundMsg})

\* RAGModule.ensureInitialized (rag-module.ts 141-145) lets the call through
ensureInitialized == isInitialized

\* a call through the facade that ensureInitialized rejects
Rejected(t, c) ==
    /\ c.via = "facade"
    /\ constructed
    /\ ~ensureInitialized
    /\ Complete(t, c, Failed(MkError(ErrNotInitialized)))
    /\ UNCHANGED <<storeVars, nextId, moduleVars, provState, scenario, active>>

\* the call reaches the provider
Admitted(c) ==
    \/ c.via = "provider"
    \/ c.via = "facade" /\ constructed /\ ensureInitialized

\* the object the callers of a scenario call
Via == IF scenario \in ProviderScenarios THEN "provider" ELSE "facade"

\* the configurations create() is called with in a scenario
ConfigsOf(s) ==
    IF s = "creation" THEN ConfigInputs
    ELSE IF s = "facade" THEN {FullConfig, TunedConfig}
    ELSE {FullConfig}

\* the operations of the public contract are called in this state
Operating == scenario # "creation" \/ ~isInitialized

\* a caller may begin an operation of the public contract
Callable(t) == Idle(t) /\ Operating

\* the documents addDocument is called with in a scenario: two callers add
\* documents of one or two chunks under the same metadata
TextsOf(s) ==
    IF s \in ParallelScenarios THEN {MkText(LenForChunks(k)) : k \in 1..MaxChunks} ELSE Texts
MetadatasOf(s) ==
    IF s \in ParallelScenarios THEN {[source |-> "a.txt"]} ELSE Metadatas

\* the callers of the scenario call every operation, one call at a time
Sequential == scenario \notin ParallelScenarios

\* id lists of deleteDocumentsByIds
IdLists == {<<>>, <<1>>, <<2, 3>>}

(***************************************************************************)
(* RAGModule.create: constructor, then initialize (rag-module.ts 20-26,    *)
(* 83-139).                                                                *)
(***************************************************************************)
\* new RAGModule(config) and initialize() up to the await of
\* EmbeddingsModule.create
Create(t, cfg) ==
    /\ Idle(t)
    /\ scenario \notin ProviderScenarios
    /\ ~constructed
    /\ LET c == [NoCall EXCEPT !.op = "create", !.via = "facade", !.config = cfg]
           msg == ValidationError(cfg)
       IN  IF msg # ""
           THEN /\ Complete(t, c, Failed(MkError(msg)))
                /\ UNCHANGED moduleVars
           ELSE /\ constructed' = TRUE
                /\ config' = validateAndBuildConfig(cfg)
                /\ Suspend(t, c, "embSetup", NoLoc, [NoCalls EXCEPT !.setup = 1])
                /\ UNCHANGED <<isInitialized, embeddingsModule, ragProvider>>
    /\ UNCHANGED <<storeVars, nextId, provState, scenario, active>>

\* initialize() of a module that create() returned: the guard of
\* rag-module.ts 93-96 returns at once
ModuleInitialize(t) ==
    /\ Callable(t)
    /\ Sequential
    /\ scenario \notin ProviderScenarios
    /\ constructed
    /\ isInitialized
    /\ Complete(t, [NoCall EXCEPT !.op = "initialize", !.via = "facade"], Ok(<<>>))
    /\ UNCHANGED <<storeVars, nextId, moduleVars, provState, scenario, active>>

\* an awaited promise rejects: the function that awaits it goes on, with
\* this error thrown at its await, in a later job
Rejects(t, label, error) ==
    /\ pc' = [pc EXCEPT ![t] = label]
    /\ loc' = [loc EXCEPT ![t].error = error]
    /\ UNCHANGED <<call, res, ncalls>>

\* the throw of the catch block of RAGModule.initialize (rag-module.ts
\* 134-138): initialize() rejects, and create(), which awaits it at line 85,
\* goes on in a later job
ModuleInitFailed(t, error) == Rejects(t, "moduleFailed", Wrap(CtxModuleInit, error))

\* EmbeddingsModule.create answered: the provider is chosen and its
\* initialize() begins with getCollections
EmbeddingsCreated(t) ==
    /\ At(t, "embSetup")
    /\ \/ /\ ModuleInitFailed(t, MkError(ConnRefused))
          /\ UNCHANGED <<moduleVars, provState>>
       \/ /\ embeddingsModule' = TRUE
          /\ IF config.provider = "qdrant"
             THEN /\ ragProvider' = TRUE
                  /\ provState' = [provState EXCEPT !.inner = "Initializing"]
                  /\ Proceed(t, "getCollections", NoLoc, "store")
             ELSE /\ ModuleInitFailed(t, MkError(ErrUnsupportedProvider(config.provider)))
                  /\ UNCHANGED <<ragProvider, provState>>
          /\ UNCHANGED <<constructed, config, isInitialized>>
    /\ UNCHANGED <<storeVars, nextId, scenario, active>>

(***************************************************************************)
(* QdrantProvider.initialize (rag-module.ts 267-294), run by create() for  *)
(* the module's provider or called on a provider constructed on its own.   *)
(***************************************************************************)
ProviderInitialize(t) ==
    /\ Idle(t)
    /\ scenario \in ProviderScenarios
    /\ Suspend(t, [NoCall EXCEPT !.op = "initialize", !.via = "provider"],
               "getCollections", NoLoc, [NoCalls EXCEPT !.store = 1])
    /\ provState' = [provState EXCEPT
                        !.direct = IF @ = "Ready" THEN @ ELSE "Initializing"]
    /\ UNCHANGED <<storeVars, nextId, moduleVars, scenario, active>>

\* a faulty InitFailed: the readiness flag is set although initialize() threw
InitFailed_MarksReady(t, error) ==
    /\ IF call[t].op = "create"
       THEN Rejects(t, "providerFailed", Wrap(CtxQdrantInit, error))
       ELSE Return(t, Failed(Wrap(CtxQdrantInit, error)))
    /\ provState' = [provState EXCEPT
                        ![ProviderOf(t)] = IF @ = "Ready" THEN @ ELSE "Uninitialized"]
    /\ isInitialized' = TRUE

\* QdrantProvider.initialize() throws from its catch block (rag-module.ts
\* 289-292): its caller has the error, and RAGModule.initialize, which awaits
\* it at line 129, goes on in a later job
InitFailed(t, error) ==
    /\ IF call[t].op = "create"
       THEN Rejects(t, "providerFailed", Wrap(CtxQdrantInit, error))
       ELSE Return(t, Failed(Wrap(CtxQdrantInit, error)))
    /\ provState' = [provState EXCEPT
                        ![ProviderOf(t)] = IF @ = "Ready" THEN @ ELSE "Uninitialized"]
    /\ UNCHANGED isInitialized

\* QdrantProvider.initialize() returns: its caller has the result, and
\* RAGModule.initialize, which awaits it at rag-module.ts 129, goes on in a
\* later job
InitDone(t) ==
    /\ provState' = [provState EXCEPT ![ProviderOf(t)] = "Ready"]
    /\ UNCHANGED isInitialized
    /\ IF call[t].op = "create"
       THEN /\ pc' = [pc EXCEPT ![t] = "providerReady"]
            /\ UNCHANGED <<call, loc, res, ncalls>>
       ELSE Return(t, Ok(<<>>))

\* RAGModule.initialize goes on after its await of ragProvider.initialize()
\* with the error the provider threw, and wraps it
ProviderFailureCaught(t) ==
    /\ At(t, "providerFailed")
    /\ ModuleInitFailed(t, loc[t].error)
    /\ UNCHANGED <<storeVars, nextId, moduleVars, provState, scenario, active>>

\* create() goes on after its await of module.initialize() with the error
\* initialize() threw, and rejects with it (rag-module.ts 85)
CreateRejected(t) ==
    /\ At(t, "moduleFailed")
    /\ Return(t, Failed(loc[t].error))
    /\ UNCHANGED <<storeVars, nextId, moduleVars, provState, scenario, active>>

\* RAGModule.initialize goes on after its await of ragProvider.initialize()
\* and sets the flag (rag-module.ts 129-133); create(), which awaits it at
\* line 85, goes on in a later job
ModuleInitialized(t) ==
    /\ At(t, "providerReady")
    /\ isInitialized' = TRUE
    /\ pc' = [pc EXCEPT ![t] = "moduleReady"]
    /\ UNCHANGED <<call, loc, res, ncalls>>
    /\ UNCHANGED <<storeVars, nextId, constructed, config, embeddingsModule,
                   ragProvider, provState, scenario, active>>

\* create() goes on after its await of module.initialize() and returns the
\* module (rag-module.ts 85-86)
CreateReturned(t) ==
    /\ At(t, "moduleReady")
    /\ Return(t, Ok(<<>>))
    /\ UNCHANGED <<storeVars, nextId, moduleVars, provState, scenario, active>>

\* a faulty CollectionsListed: createCollection is called whether or not the
\* name is among the collections
CollectionsListed_AlwaysCreates(t) ==
    /\ At(t, "getCollections")
    /\ \/ /\ InitFailed(t, MkError(ConnRefused))
       \/ /\ Proceed(t, "createCollection", NoLoc, "store")
          /\ UNCHANGED <<isInitialized, provState>>
    /\ UNCHANGED <<storeVars, nextId, constructed, config, embeddingsModule,
                   ragProvider, scenario, active>>

CollectionsListed(t) ==
    /\ At(t, "getCollections")
    /\ \/ /\ InitFailed(t, MkError(ConnRefused))
       \/ /\ collection.exists
          /\ InitDone(t)
       \/ /\ ~collection.exists
          /\ Proceed(t, "createCollection", NoLoc, "store")
          /\ UNCHANGED <<isInitialized, provState>>
    /\ UNCHANGED <<storeVars, nextId, constructed, config, embeddingsModule,
                   ragProvider, scenario, active>>

CollectionCreated(t) ==
    /\ At(t, "createCollection")
    /\ \/ /\ \E e \in {ConnRefused} \cup
                      (IF collection.exists THEN {AlreadyExistsMsg} ELSE {}) :
                InitFailed(t, MkError(e))
          /\ UNCHANGED storeVars
       \/ /\ ~collection.exists
          /\ collection' = [exists |-> TRUE, size |-> ProviderConfig(t).vectorSize,
                            distance |-> ProviderConfig(t).distanceMetric]
          /\ points' = <<>>
          /\ InitDone(t)
    /\ UNCHANGED <<nextId, constructed, config, embeddingsModule, ragProvider, scenario, active>>

(***************************************************************************)
(* addDocument (rag-module.ts 150-155, 296-351).                           *)
(***************************************************************************)
\* the bounds on the ids and on the collection: a document is added only
\* when every chunk of it can be given an id and the collection has room for
\* it, whatever the calls in flight take and add
WithinBounds(content) ==
    LET n == Len(simpleChunker(content, DefaultChunkSize, DefaultOverlap))
        \* the ids the calls that wait for their embeddings may yet take, one
        \* for every chunk, and the points the calls that wait for their
        \* upsert add
        IdsAwaited[tasks \in SUBSET Tasks] ==
            IF tasks = {} THEN 0
            ELSE LET u == CHOOSE u \in tasks : TRUE
                 IN  (IF pc[u] = "embed"
                      THEN Len(simpleChunker(call[u].content,
                                             DefaultChunkSize, DefaultOverlap))
                      ELSE 0) + IdsAwaited[tasks \ {u}]
        PointsAwaited[tasks \in SUBSET Tasks] ==
            IF tasks = {} THEN 0
            ELSE LET u == CHOOSE u \in tasks : TRUE
                 IN  (IF pc[u] = "upsert" THEN Len(loc[u].points) ELSE 0)
                        + PointsAwaited[tasks \ {u}]
    IN  /\ (nextId - 1) + IdsAwaited[Tasks] + n <= MaxId
        /\ Len(points) + PointsAwaited[Tasks] + IdsAwaited[Tasks] + n <= MaxPoints

AddDocument(t, via, content, metadata) ==
    /\ Callable(t)
    /\ scenario # "parallelInit"
    /\ WithinBounds(content)
    /\ LET c == [NoCall EXCEPT !.op = "addDocument", !.via = via,
                               !.content = content, !.metadata = metadata]
           chunks == simpleChunker(content, DefaultChunkSize, DefaultOverlap)
       IN  \/ Rejected(t, c)
           \/ /\ Admitted(c)
              /\ IF Len(chunks) = 0
                 THEN Complete(t, c, Ok(<<>>))
                 ELSE Suspend(t, c, "embed", NoLoc, [NoCalls EXCEPT !.embed = 1])
              /\ UNCHANGED <<storeVars, nextId, moduleVars, provState, scenario, active>>

\* a faulty ChunksEmbedded: the ids are taken from a counter that the call
\* does not advance, so that two calls in flight are given the same ids
ChunksEmbedded_SharedIds(t) ==
    /\ At(t, "embed")
    /\ LET chunks == simpleChunker(call[t].content, DefaultChunkSize, DefaultOverlap)
       IN  \/ /\ Return(t, Failed(MkError(ConnRefused)))
              /\ UNCHANGED nextId
           \/ \E embeddings \in EmbedResults(chunks) :
                LET built == BuildPoints(chunks, embeddings, call[t].metadata, nextId)
                IN  /\ nextId' = IF \E u \in Tasks \ {t} : pc[u] = "embed"
                                  THEN nextId ELSE built.next
                    /\ LET locals == [NoLoc EXCEPT !.embeddings = embeddings,
                                                    !.points = built.points,
                                                    !.ids = built.ids]
                       IN  IF Len(built.points) = 0
                           THEN Finish(t, Ok(<<>>), locals)
                           ELSE Proceed(t, "upsert", locals, "store")
    /\ UNCHANGED <<storeVars, moduleVars, provState, scenario, active>>

\* embed(chunks) answered
ChunksEmbedded(t) ==
    /\ At(t, "embed")
    /\ LET chunks == simpleChunker(call[t].content, DefaultChunkSize, DefaultOverlap)
       IN  \/ /\ Return(t, Failed(MkError(ConnRefused)))
              /\ UNCHANGED nextId
           \/ \E embeddings \in EmbedResults(chunks) :
                LET built == BuildPoints(chunks, embeddings, call[t].metadata, nextId)
                IN  /\ nextId' = built.next
                    /\ LET locals == [NoLoc EXCEPT !.embeddings = embeddings,
                                                    !.points = built.points,
                                                    !.ids = built.ids]
                       IN  IF Len(built.points) = 0
                           THEN Finish(t, Ok(<<>>), locals)
                           ELSE Proceed(t, "upsert", locals, "store")
    /\ UNCHANGED <<storeVars, moduleVars, provState, scenario, active>>

\* upsert answered
PointsUpserted(t) ==
    /\ At(t, "upsert")
    /\ \/ /\ \E e \in StoreErrors : Return(t, Failed(Wrap(CtxUpsert, MkError(e))))
          /\ UNCHANGED storeVars
       \/ /\ collection.exists
          /\ points' \in StoreUpsert(points, loc[t].points)
          /\ Return(t, Ok(loc[t].ids))
          /\ UNCHANGED collection
    /\ UNCHANGED <<nextId, moduleVars, provState, scenario, active>>

(***************************************************************************)
(* retrieveContext (rag-module.ts 160-178, 353-394).                       *)
(***************************************************************************)
RetrieveContext(t, via, query, options) ==
    /\ Callable(t)
    /\ Sequential
    /\ LET c == [NoCall EXCEPT !.op = "retrieveContext", !.via = via,
                               !.query = query, !.options = options]
           passed == IF via = "facade" THEN FinalOptions(options, config) ELSE options
       IN  \/ Rejected(t, c)
           \/ /\ Admitted(c)
              /\ Suspend(t, c, "qembed", [NoLoc EXCEPT !.request = passed],
                         [NoCalls EXCEPT !.embed = 1])
              /\ UNCHANGED <<storeVars, nextId, moduleVars, provState, scenario, active>>

\* a faulty QueryEmbedded: the search is issued whatever embed answered
QueryEmbedded_NoVectorTest(t) ==
    /\ At(t, "qembed")
    /\ \/ Return(t, Failed(MkError(ConnRefused)))
       \/ \E embeddings \in EmbedResults(<<call[t].query>>) :
            Proceed(t, "search",
                    [NoLoc EXCEPT !.embeddings = embeddings,
                                  !.request = SearchRequest(embeddings[1], loc[t].request)],
                    "store")
    /\ UNCHANGED <<storeVars, nextId, moduleVars, provState, scenario, active>>

\* embed(queryText) answered
QueryEmbedded(t) ==
    /\ At(t, "qembed")
    /\ \/ Return(t, Failed(MkError(ConnRefused)))
       \/ \E embeddings \in EmbedResults(<<call[t].query>>) :
            LET queryVector == embeddings[1]
            IN  IF queryVector = Absent
                THEN Finish(t, Failed(MkError(ErrQueryEmbedding)),
                            [loc[t] EXCEPT !.embeddings = embeddings])
                ELSE Proceed(t, "search",
                             [NoLoc EXCEPT !.embeddings = embeddings,
                                           !.request =
                                                SearchRequest(queryVector, loc[t].request)],
                             "store")
    /\ UNCHANGED <<storeVars, nextId, moduleVars, provState, scenario, active>>

\* search answered
SearchAnswered(t) ==
    /\ At(t, "search")
    /\ \/ \E e \in StoreErrors : Return(t, Failed(Wrap(CtxSearch, MkError(e))))
       \/ /\ collection.exists
          /\ Return(t, Ok(MapHits(StoreSearch(points, loc[t].request))))
    /\ UNCHANGED <<storeVars, nextId, moduleVars, provState, scenario, active>>

(***************************************************************************)
(* getDocumentsByMetadata (rag-module.ts 396-437); RAGModule declares it   *)
(* through RAGModuleInterface but has no such method.                      *)
(***************************************************************************)
\* a faulty GetDocumentsByMetadata: an empty filter is turned away as
\* deleteDocumentsByMetadata does
GetDocumentsByMetadata_EmptyTest(t, via, filter) ==
    /\ Callable(t)
    /\ Sequential
    /\ LET c == [NoCall EXCEPT !.op = "getDocumentsByMetadata", !.via = via,
                               !.filter = filter]
       IN  \/ /\ via = "facade"
              /\ constructed
              /\ Complete(t, c, Failed(MkError(ErrNotAFunction)))
           \/ /\ via = "provider"
              /\ IF DOMAIN filter = {}
                 THEN Complete(t, c, Ok(<<>>))
                 ELSE Suspend(t, c, "scroll", NoLoc, [NoCalls EXCEPT !.store = 1])
    /\ UNCHANGED <<storeVars, nextId, moduleVars, provState, scenario, active>>

GetDocumentsByMetadata(t, via, filter) ==
    /\ Callable(t)
    /\ Sequential
    /\ LET c == [NoCall EXCEPT !.op = "getDocumentsByMetadata", !.via = via,
                               !.filter = filter]
       IN  \/ /\ via = "facade"
              /\ constructed
              /\ Complete(t, c, Failed(MkError(ErrNotAFunction)))
           \/ /\ via = "provider"
              /\ Suspend(t, c, "scroll", NoLoc, [NoCalls EXCEPT !.store = 1])
    /\ UNCHANGED <<storeVars, nextId, moduleVars, provState, scenario, active>>

\* a faulty PageScrolled: the cursor of a page is not sent with the request
\* for the next one
PageScrolled_CursorNotSent(t) ==
    /\ At(t, "scroll")
    /\ \/ \E e \in StoreErrors : Return(t, Failed(Wrap(CtxScroll, MkError(e))))
       \/ /\ collection.exists
          /\ LET response == StoreScroll(points, MustFilter(call[t].filter),
                                         ScrollLimit, Null)
                 allPoints == loc[t].acc \o response.points
                 nextPageOffset == response.next_page_offset
             IN  IF Truthy(nextPageOffset)
                 THEN Proceed(t, "scroll",
                              [loc[t] EXCEPT !.offset = nextPageOffset,
                                             !.acc = allPoints], "store")
                 ELSE Finish(t, Ok(MapRecords(allPoints)),
                             [loc[t] EXCEPT !.offset = nextPageOffset,
                                            !.acc = allPoints])
    /\ UNCHANGED <<storeVars, nextId, moduleVars, provState, scenario, active>>

\* one scroll page answered
PageScrolled(t) ==
    /\ At(t, "scroll")
    /\ \/ \E e \in StoreErrors : Return(t, Failed(Wrap(CtxScroll, MkError(e))))
       \/ /\ collection.exists
          /\ LET response == StoreScroll(points, MustFilter(call[t].filter),
                                         ScrollLimit, loc[t].offset)
                 allPoints == loc[t].acc \o response.points
                 nextPageOffset == response.next_page_offset
             IN  IF Truthy(nextPageOffset)
                 THEN Proceed(t, "scroll",
                              [loc[t] EXCEPT !.offset = nextPageOffset,
                                             !.acc = allPoints], "store")
                 ELSE Finish(t, Ok(MapRecords(allPoints)),
                             [loc[t] EXCEPT !.offset = nextPageOffset,
                                            !.acc = allPoints])
    /\ UNCHANGED <<storeVars, nextId, moduleVars, provState, scenario, active>>

(***************************************************************************)
(* deleteDocumentsByIds, deleteDocumentsByMetadata, deleteStorage          *)
(* (rag-module.ts 183-207, 439-516).                                       *)
(***************************************************************************)
DeleteDocumentsByIds(t, via, ids) ==
    /\ Callable(t)
    /\ Sequential
    /\ LET c == [NoCall EXCEPT !.op = "deleteDocumentsByIds", !.via = via, !.ids = ids]
       IN  \/ Rejected(t, c)
           \/ /\ Admitted(c)
              /\ IF Len(ids) = 0
                 THEN Complete(t, c, Ok(<<>>))
                 ELSE Suspend(t, c, "deleteIds", NoLoc, [NoCalls EXCEPT !.store = 1])
              /\ UNCHANGED <<storeVars, nextId, moduleVars, provState, scenario, active>>

IdsDeleted(t) ==
    /\ At(t, "deleteIds")
    /\ \/ /\ \E e \in StoreErrors : Return(t, Failed(Wrap(CtxDeleteIds, MkError(e))))
          /\ UNCHANGED storeVars
       \/ /\ collection.exists
          /\ points' = StoreDeleteIds(points, call[t].ids)
          /\ Return(t, Ok(<<>>))
          /\ UNCHANGED collection
    /\ UNCHANGED <<nextId, moduleVars, provState, scenario, active>>

\* a faulty DeleteDocumentsByMetadata: an empty filter is sent to the store
DeleteDocumentsByMetadata_NoEmptyTest(t, via, filter) ==
    /\ Callable(t)
    /\ Sequential
    /\ LET c == [NoCall EXCEPT !.op = "deleteDocumentsByMetadata", !.via = via,
                               !.filter = filter]
       IN  \/ Rejected(t, c)
           \/ /\ Admitted(c)
              /\ Suspend(t, c, "deleteFilter", NoLoc, [NoCalls EXCEPT !.store = 1])
              /\ UNCHANGED <<storeVars, nextId, moduleVars, provState, scenario, active>>

DeleteDocumentsByMetadata(t, via, filter) ==
    /\ Callable(t)
    /\ Sequential
    /\ LET c == [NoCall EXCEPT !.op = "deleteDocumentsByMetadata", !.via = via,
                               !.filter = filter]
       IN  \/ Rejected(t, c)
           \/ /\ Admitted(c)
              /\ IF DOMAIN filter = {}
                 THEN Complete(t, c, Ok(<<>>))
                 ELSE Suspend(t, c, "deleteFilter", NoLoc, [NoCalls EXCEPT !.store = 1])
              /\ UNCHANGED <<storeVars, nextId, moduleVars, provState, scenario, active>>

FilterDeleted(t) ==
    /\ At(t, "deleteFilter")
    /\ \/ /\ \E e \in StoreErrors : Return(t, Failed(Wrap(CtxDeleteFilter, MkError(e))))
          /\ UNCHANGED storeVars
       \/ /\ collection.exists
          /\ points' = StoreDeleteFilter(points, MustFilter(call[t].filter))
          /\ Return(t, Ok(<<>>))
          /\ UNCHANGED collection
    /\ UNCHANGED <<nextId, moduleVars, provState, scenario, active>>

DeleteStorage(t, via) ==
    /\ Callable(t)
    /\ Sequential
    /\ LET c == [NoCall EXCEPT !.op = "deleteStorage", !.via = via]
       IN  \/ Rejected(t, c)
           \/ /\ Admitted(c)
              /\ Suspend(t, c, "deleteCollection", NoLoc, [NoCalls EXCEPT !.store = 1])
              /\ UNCHANGED <<storeVars, nextId, moduleVars, provState, scenario, active>>

\* a faulty CollectionDeleted: a not-found error is rethrown like any other
CollectionDeleted_RethrowsNotFound(t) ==
    /\ At(t, "deleteCollection")
    /\ \/ /\ collection.exists
          /\ collection' = NoCollection
          /\ points' = <<>>
          /\ Finish(t, Ok(<<>>), [loc[t] EXCEPT !.result = "true"])
       \/ /\ ~collection.exists
          /\ Finish(t, Ok(<<>>), [loc[t] EXCEPT !.result = "false"])
          /\ UNCHANGED storeVars
       \/ /\ \E msg \in StoreErrors :
                Finish(t, Failed(Wrap(CtxDeleteCollection, MkError(msg))),
                       [loc[t] EXCEPT !.result = msg])
          /\ UNCHANGED storeVars
    /\ UNCHANGED <<nextId, moduleVars, provState, scenario, active>>

\* deleteCollection answered: true for a collection it dropped; for a missing
\* one false or a not-found error, which deleteStorage swallows
CollectionDeleted(t) ==
    /\ At(t, "deleteCollection")
    /\ \/ /\ collection.exists
          /\ collection' = NoCollection
          /\ points' = <<>>
          /\ Finish(t, Ok(<<>>), [loc[t] EXCEPT !.result = "true"])
       \/ /\ ~collection.exists
          /\ Finish(t, Ok(<<>>), [loc[t] EXCEPT !.result = "false"])
          /\ UNCHANGED storeVars
       \/ /\ \E msg \in StoreErrors :
                Finish(t, IF MatchesNotFound(msg)
                          THEN Ok(<<>>)
                          ELSE Failed(Wrap(CtxDeleteCollection, MkError(msg))),
                       [loc[t] EXCEPT !.result = msg])
          /\ UNCHANGED storeVars
    /\ UNCHANGED <<nextId, moduleVars, provState, scenario, active>>

(***************************************************************************)
(* The specification.                                                      *)
(***************************************************************************)
Next ==
    \E t \in Tasks :
        \/ \E cfg \in ConfigsOf(scenario) : Create(t, cfg)
        \/ EmbeddingsCreated(t)
        \/ ModuleInitialize(t)
        \/ ProviderInitialize(t)
        \/ CollectionsListed(t)
        \/ CollectionCreated(t)
        \/ ModuleInitialized(t)
        \/ CreateReturned(t)
        \/ ProviderFailureCaught(t)
        \/ CreateRejected(t)
        \/ \E content \in TextsOf(scenario), metadata \in MetadatasOf(scenario) :
                AddDocument(t, Via, content, metadata)
        \/ ChunksEmbedded(t)
        \/ PointsUpserted(t)
        \/ \E query \in Queries, options \in OptionInputs :
                RetrieveContext(t, Via, query, options)
        \/ QueryEmbedded(t)
        \/ SearchAnswered(t)
        \/ \E filter \in Filters : GetDocumentsByMetadata(t, Via, filter)
        \/ PageScrolled(t)
        \/ \E ids \in IdLists : DeleteDocumentsByIds(t, Via, ids)
        \/ IdsDeleted(t)
        \/ \E filter \in Filters : DeleteDocumentsByMetadata(t, Via, filter)
        \/ FilterDeleted(t)
        \/ DeleteStorage(t, Via)
        \/ CollectionDeleted(t)

Spec == Init /\ [][Next]_vars

(***************************************************************************)
(* simpleChunker (rag-module.ts 222-236) step by step: one step per turn   *)
(* of its while loop, the locals i and chunks being loc.offset and loc.acc.*)
(* The caller passes chunkSize and overlap; addDocument passes none, which *)
(* gives the defaults 300 and 50.                                          *)
(***************************************************************************)
\* bounds of the texts and chunk sizes simpleChunker is called with
MaxTextLen == 8
MaxChunkSize == 4

\* the turns of the loop that are followed: a call with overlap >= chunkSize
\* on a text longer than chunkSize never leaves the loop
MaxTurns == MaxTextLen + 2

\* the calls of simpleChunker: short texts with every chunk size and every
\* overlap, those not smaller than the chunk size included, and the texts of
\* the documents with the defaults
ChunkerInputs ==
    {[text |-> MkText(n), chunkSize |-> size, overlap |-> o] :
        n \in 0..MaxTextLen, size \in 1..MaxChunkSize, o \in 0..(MaxChunkSize - 1)}
    \cup {[text |-> text, chunkSize |-> DefaultChunkSize, overlap |-> DefaultOverlap] :
            text \in Texts}

\* function entry (rag-module.ts 223-228)
SimpleChunkerCalled(t, in) ==
    /\ Idle(t)
    /\ LET c == [NoCall EXCEPT !.op = "simpleChunker", !.content = in.text,
                               !.options = [chunkSize |-> in.chunkSize,
                                            overlap |-> in.overlap]]
       IN  IF Len(in.text) <= in.chunkSize
           THEN Complete(t, c, Ok(<<in.text>>))
           ELSE Suspend(t, c, "chunking", [NoLoc EXCEPT !.offset = 0], NoCalls)
    /\ UNCHANGED <<storeVars, nextId, moduleVars, provState, scenario, active>>

\* a faulty ChunkerLoopTurn: the loop is not left at the window that reaches
\* the end of the text
ChunkerLoopTurn_NoBreak(t) ==
    /\ At(t, "chunking")
    /\ Len(loc[t].acc) < MaxTurns
    /\ LET text == call[t].content
           chunkSize == call[t].options.chunkSize
           overlap == call[t].options.overlap
           i == loc[t].offset
           chunks == loc[t].acc
       IN  IF ~(i < Len(text))
           THEN Return(t, Ok(chunks))
           ELSE LET end == Min(i + chunkSize, Len(text))
                    locals == [loc[t] EXCEPT !.acc = Append(chunks, Substring(text, i, end)),
                                             !.offset = i + chunkSize - overlap]
                IN  /\ loc' = [loc EXCEPT ![t] = locals]
                    /\ UNCHANGED <<pc, call, res, ncalls>>
    /\ UNCHANGED <<storeVars, nextId, moduleVars, provState, scenario, active>>

\* a faulty ChunkerLoopTurn: the window is moved on by the overlap
ChunkerLoopTurn_StepIsOverlap(t) ==
    /\ At(t, "chunking")
    /\ Len(loc[t].acc) < MaxTurns
    /\ LET text == call[t].content
           chunkSize == call[t].options.chunkSize
           overlap == call[t].options.overlap
           i == loc[t].offset
           chunks == loc[t].acc
       IN  IF ~(i < Len(text))
           THEN Return(t, Ok(chunks))
           ELSE LET end == Min(i + chunkSize, Len(text))
                    locals == [loc[t] EXCEPT !.acc = Append(chunks, Substring(text, i, end)),
                                             !.offset = i + overlap]
                IN  IF end = Len(text)
                    THEN Finish(t, Ok(locals.acc), locals)
                    ELSE /\ loc' = [loc EXCEPT ![t] = locals]
                         /\ UNCHANGED <<pc, call, res, ncalls>>
    /\ UNCHANGED <<storeVars, nextId, moduleVars, provState, scenario, active>>

\* one turn of the while loop (rag-module.ts 229-234), or its exit
ChunkerLoopTurn(t) ==
    /\ At(t, "chunking")
    /\ Len(loc[t].acc) < MaxTurns
    /\ LET text == call[t].content
           chunkSize == call[t].options.chunkSize
           overlap == call[t].options.overlap
           i == loc[t].offset
           chunks == loc[t].acc
       IN  IF ~(i < Len(text))
           THEN Return(t, Ok(chunks))
           ELSE LET end == Min(i + chunkSize, Len(text))
                    locals == [loc[t] EXCEPT !.acc = Append(chunks, Substring(text, i, end)),
                                             !.offset = i + chunkSize - overlap]
                IN  IF end = Len(text)
                    THEN Finish(t, Ok(locals.acc), locals)
                    ELSE /\ loc' = [loc EXCEPT ![t] = locals]
                         /\ UNCHANGED <<pc, call, res, ncalls>>
    /\ UNCHANGED <<storeVars, nextId, moduleVars, provState, scenario, active>>

ChunkerInit == InitIn({"chunker"}) /\ ~collection.exists

ChunkerNext ==
    \E t \in Tasks :
        \/ \E in \in ChunkerInputs : SimpleChunkerCalled(t, in)
        \/ ChunkerLoopTurn(t)

ChunkerSpec == ChunkerInit /\ [][ChunkerNext]_vars

\* the loop runs on: no caller and nothing else holds a turn back
ChunkerLive == ChunkerSpec /\ WF_vars(ChunkerNext)

(***************************************************************************)
(* getDocumentsByMetadata of a provider on its own (rag-module.ts 396-437),*)
(* on the points of another client and on the documents the caller added.  *)
(* The store answers every scroll request, with a page or with an error.   *)
(***************************************************************************)
ScanInit == InitIn({"provider"})

ScanNext ==
    \E t \in Tasks :
        \/ \E content \in Texts, metadata \in Metadatas :
                AddDocument(t, "provider", content, metadata)
        \/ ChunksEmbedded(t)
        \/ PointsUpserted(t)
        \/ \E filter \in Filters : GetDocumentsByMetadata(t, "provider", filter)
        \/ PageScrolled(t)

ScanSpec == ScanInit /\ [][ScanNext]_vars
ScanLive == ScanSpec /\ WF_vars(\E t \in Tasks : PageScrolled(t))

(***************************************************************************)
(* Vocabulary of the properties.                                           *)
(***************************************************************************)
\* the operations of the public contract
ContractOps ==
    {"addDocument", "retrieveContext", "deleteDocumentsByIds",
     "deleteDocumentsByMetadata", "getDocumentsByMetadata", "deleteStorage"}

\* the lifecycle state of the object the caller's operation runs on
LifecycleOf(t) == IF call[t].via = "facade" THEN FacadeState ELSE provState.direct

\* the caller's operation is over
Done(t) == pc[t] = "idle" /\ res[t].status \in {"ok", "error"}

\* the innermost message of an error
CauseOf(error) == error[Len(error)]

\* a configuration that lacks a field RAGConfig or QdrantConfig requires
Incomplete(cfg) ==
    \/ ~Has(cfg, "provider")
    \/ ~Has(cfg, "qdrantConfig")
    \/ \E k \in {"url", "collectionName", "vectorSize", "distanceMetric"} :
            ~Has(cfg.qdrantConfig, k)
    \/ ~Has(cfg, "embeddingsConfig")

\* the context a provider operation wraps its backend errors in
ContextOf(op) ==
    CASE op = "addDocument" -> CtxUpsert
      [] op = "retrieveContext" -> CtxSearch
      [] op = "getDocumentsByMetadata" -> CtxScroll
      [] op = "deleteDocumentsByIds" -> CtxDeleteIds
      [] op = "deleteDocumentsByMetadata" -> CtxDeleteFilter
      [] OTHER -> CtxDeleteCollection

\* the chunks of the document of the caller's addDocument
ChunksOf(t) == simpleChunker(call[t].content, DefaultChunkSize, DefaultOverlap)

\* the positions of the entries of an embed answer that are not Absent
PresentIdx(embeddings) ==
    LET F[n \in 0..Len(embeddings)] ==
            IF n = 0 THEN <<>>
            ELSE IF embeddings[n] # Absent THEN Append(F[n - 1], n) ELSE F[n - 1]
    IN  F[Len(embeddings)]

\* the embed answer has an entry for every chunk, and every entry is Absent
AllAbsent(embeddings) ==
    embeddings # <<>> /\ \A i \in 1..Len(embeddings) : embeddings[i] = Absent

\* the ids of a sequence of points or records
IdsOf(pts) == [i \in 1..Len(pts) |-> pts[i].id]

\* the stored point with this id
PointOf(pts, id) == pts[IndexOfId(pts, id)]

\* the step in which the caller's operation, suspended at label, succeeds
Succeeds(t, label) == pc[t] = label /\ pc'[t] = "idle" /\ res'[t].status = "ok"

\* the keys of the payload that addDocument sets itself
OwnKeys == {"content", "chunkIndex"}

(***************************************************************************)
(* Properties.                                                             *)
(***************************************************************************)
\* C1: an operation of the public contract called on a facade or a provider
\* that is not Ready fails with the initialization-required error and calls
\* neither the Embedding Client nor the Vector Store.
C1_NotReadyRejected ==
    \A t \in Tasks :
        (call[t].op \in ContractOps /\ LifecycleOf(t) # "Ready")
            => /\ res[t] = Failed(MkError(ErrNotInitialized))
               /\ ncalls[t] = NoCalls

\* C2: create(config) with a missing provider, a missing or incomplete
\* qdrantConfig (url, collectionName, vectorSize or distanceMetric absent) or
\* a missing embeddingsConfig fails at once, before the Embedding Client is
\* set up and before any Vector Store call.
C2_IncompleteConfigFailsFirst ==
    \A t \in Tasks :
        (call[t].op = "create" /\ Incomplete(call[t].config))
            => /\ res[t].status = "error"
               /\ ncalls[t] = NoCalls

\* C3: create(config) fails with an initialization failure exactly when the
\* failure came from I/O; a configuration error, an unsupported provider
\* included, is not reported as one and is raised without any I/O.
C3_InitFailureIffIO ==
    \A t \in Tasks :
        (call[t].op = "create" /\ res[t].status = "error")
            => /\ (res[t].error[1] = CtxModuleInit)
                    <=> (CauseOf(res[t].error) \in BackendMessages)
               /\ CauseOf(res[t].error) \notin BackendMessages => ncalls[t] = NoCalls

\* the steps the lifecycle of a RAGModule instance may take; the constructor
\* and the start of initialize() are one step of create()
LifecycleSteps ==
    {<<"None", "None">>, <<"None", "Initializing">>,
     <<"Initializing", "Initializing">>, <<"Initializing", "Ready">>,
     <<"Initializing", "Uninitialized">>, <<"Uninitialized", "Uninitialized">>,
     <<"Ready", "Ready">>}

\* C4: the lifecycle is one-way: the module becomes Ready only in a step of
\* create(), after the Embedding Client was set up and the provider's
\* initialize() completed with the collection in place; a create() that fails leaves the instance not Ready for ever; and
\* once Ready the module stays Ready whatever is called and whatever fails.
C4_LifecycleOneWay ==
    [][/\ <<FacadeState, FacadeState'>> \in LifecycleSteps
       /\ (~isInitialized /\ isInitialized')
            => \E t \in Tasks :
                    /\ call[t].op = "create"
                    /\ pc[t] = "providerReady"
                    /\ provState.inner = "Ready"
                    /\ res'[t].status # "error"
                    /\ embeddingsModule /\ ragProvider
                    /\ ncalls[t].setup = 1 /\ ncalls[t].store >= 1
                    /\ collection'.exists
       /\ \A t \in Tasks :
            (call'[t].op = "create" /\ res'[t].status = "error") => ~isInitialized'
      ]_vars

\* a Ready module whose deleteStorage just dropped the collection
C4_ReadyAfterDeleteStorage ==
    \E t \in Tasks :
        /\ call[t].op = "deleteStorage" /\ call[t].via = "facade"
        /\ res[t] = Ok(<<>>) /\ pc[t] = "idle"
        /\ isInitialized
        /\ ~collection.exists

\* C5: on a Ready facade every operation of the public contract exists and
\* reaches the provider: none is refused and none is missing.
C5_FacadeDelegatesAll ==
    \A t \in Tasks :
        (call[t].via = "facade" /\ call[t].op \in ContractOps /\ FacadeState = "Ready")
            => res[t].error \notin {MkError(ErrNotInitialized), MkError(ErrNotAFunction)}

C7_NoPointNoStoreCall ==
    [][\A t \in Tasks :
        /\ (call'[t].op = "addDocument" /\ Len(simpleChunker(call'[t].content,
                                                DefaultChunkSize, DefaultOverlap)) = 0
                /\ res'[t].error # MkError(ErrNotInitialized))
            => (res'[t] = Ok(<<>>) /\ ncalls'[t] = NoCalls)
        /\ (call'[t].op = "addDocument" /\ AllAbsent(loc'[t].embeddings))
            => /\ pc'[t] = "idle"
               /\ res'[t] = Ok(<<>>)
               /\ ncalls'[t].store = 0
               /\ pc[t] = "embed" => UNCHANGED storeVars
      ]_vars

\* addDocument of a two-chunk document returned no id because neither chunk
\* was embedded, while the collection holds a point
C7_AllChunksAbsent ==
    \E t \in Tasks :
        /\ call[t].op = "addDocument" /\ Done(t)
        /\ Len(ChunksOf(t)) = 2
        /\ AllAbsent(loc[t].embeddings)
        /\ res[t] = Ok(<<>>)
        /\ Len(points) = 1

\* C8: the point stored for chunk i of a document with metadata M has the
\* chunk's text as content, i as chunkIndex and M's value under every other
\* key of M; and retrieveContext gives, for every hit, the content of the hit
\* point and a metadata that carries every payload key but content.
C8_ChunkRoundTrip ==
    [][\A t \in Tasks :
        /\ Succeeds(t, "upsert") =>
            LET chunks == ChunksOf(t)
                present == PresentIdx(loc[t].embeddings)
                metadata == call[t].metadata
            IN  \A j \in 1..Len(present) :
                    LET i == present[j]
                        payload == PointOf(points', res'[t].value[j]).payload
                    IN  /\ payload.content = chunks[i]
                        /\ payload.chunkIndex = i - 1
                        /\ DOMAIN payload = (DOMAIN metadata) \cup OwnKeys
                        /\ \A k \in (DOMAIN metadata) \ OwnKeys : payload[k] = metadata[k]
        /\ Succeeds(t, "search") =>
            LET hits == StoreSearch(points, loc[t].request)
                found == res'[t].value
            IN  /\ Len(found) = Len(hits)
                /\ \A i \in 1..Len(hits) :
                        LET payload == PayloadOf(PointOf(points, hits[i].id))
                        IN  /\ Has(payload, "content") => found[i].content = payload.content
                            /\ \A k \in (DOMAIN payload) \ {"content"} :
                                    found[i].metadata[k] = payload[k]
      ]_vars

\* retrieveContext returned the second chunk of a document whose metadata
\* itself has content and chunkIndex keys and whose first chunk was not
\* embedded
C8_SecondChunkRetrieved ==
    \E t \in Tasks :
        /\ call[t].op = "retrieveContext" /\ Done(t) /\ res[t].status = "ok"
        /\ Len(points) = 1
        /\ Len(res[t].value) = 1
        /\ Has(res[t].value[1].metadata, "source")
        /\ res[t].value[1].metadata.source = "b.txt"
        /\ res[t].value[1].metadata.chunkIndex = 1
        /\ res[t].value[1].content = points[1].payload.content
        /\ Len(res[t].value[1].content) > 1

\* C9: the ids addDocument allocates are pairwise distinct, were never
\* allocated before and are not in the collection; its upsert overwrites no
\* point and lengthens the collection by the number of embedded chunks.
C9_FreshIds ==
    [][\A t \in Tasks :
        /\ (pc[t] = "embed" /\ pc'[t] = "upsert") =>
            LET ids == loc'[t].ids
            IN  /\ \A i, j \in 1..Len(ids) : i # j => ids[i] # ids[j]
                /\ \A i \in 1..Len(ids) :
                        /\ IndexOfId(points, ids[i]) = 0
                        /\ ids[i] >= nextId
        /\ Succeeds(t, "upsert") =>
            /\ Len(points') = Len(points) + Len(PresentIdx(loc[t].embeddings))
            /\ \A i \in 1..Len(points) :
                    /\ IndexOfId(points', points[i].id) # 0
                    /\ PointOf(points', points[i].id) = points[i]
            /\ {points'[i].id : i \in 1..Len(points')}
                    = {points[i].id : i \in 1..Len(points)}
                        \cup {res'[t].value[j] : j \in 1..Len(res'[t].value)}
            /\ Len(res'[t].value) = Len(PresentIdx(loc[t].embeddings))
        /\ \A i \in 1..Len(points') :
                points'[i] \in ForeignPoints \/ points'[i].id < nextId'
        /\ \A i \in 1..Len(loc'[t].ids) : loc'[t].ids[i] < nextId'
      ]_vars

\* the same content with the same metadata was ingested twice: two points
\* that differ in their id only
C9_ReingestedTwice ==
    \E t \in Tasks :
        /\ call[t].op = "addDocument" /\ Done(t) /\ res[t].status = "ok"
        /\ Len(points) = 2
        /\ points[1].id # points[2].id
        /\ \A i \in 1..2 : Has(PayloadOf(points[i]), "chunkIndex")
        /\ points[1].payload = points[2].payload
        /\ points[1].vector = points[2].vector
        /\ res[t].value = <<points[2].id>>

\* C11: when embed answers no vector for the query, retrieveContext ends
\* with the error "Failed to generate embedding for the query text." and has
\* made no call to the Vector Store.
C11_NoVectorNoSearch ==
    \A t \in Tasks :
        (call[t].op = "retrieveContext" /\ loc[t].embeddings = <<Absent>>)
            => /\ pc[t] = "idle"
               /\ res[t] = Failed(MkError(ErrQueryEmbedding))
               /\ ncalls[t].store = 0

\* retrieveContext failed for want of a query vector while the collection
\* holds a point it could have found
C11_QueryVectorAbsent ==
    \E t \in Tasks :
        /\ call[t].op = "retrieveContext" /\ Done(t)
        /\ loc[t].embeddings = <<Absent>>
        /\ res[t].status = "error"
        /\ Len(points) >= 1

\* a sequence of hits or chunks is ordered by non-increasing score
ByScore(seq) == \A i, j \in 1..Len(seq) : i < j => seq[i].score >= seq[j].score

\* C12: retrieveContext returns one chunk per hit of the search, the i-th
\* chunk carrying the score and the content of the i-th hit, so that the
\* result is by non-increasing score whenever the hits are.
C12_OneChunkPerHitInOrder ==
    [][\A t \in Tasks :
        Succeeds(t, "search") =>
            LET hits == StoreSearch(points, loc[t].request)
                found == res'[t].value
            IN  /\ Len(found) = Len(hits)
                /\ \A i \in 1..Len(hits) :
                        /\ found[i].score = hits[i].score
                        /\ Has(PayloadOf(hits[i]), "content")
                            => found[i].content = hits[i].payload.content
                        /\ Has(PayloadOf(hits[i]), "chunkIndex")
                            => found[i].metadata.chunkIndex = hits[i].payload.chunkIndex
                /\ ByScore(hits) => ByScore(found)
      ]_vars

\* retrieveContext returned two chunks of different scores, the better
\* one first although it is stored last
C12_BetterHitStoredLast ==
    \E t \in Tasks :
        /\ call[t].op = "retrieveContext" /\ Done(t) /\ res[t].status = "ok"
        /\ Len(res[t].value) = 2 /\ Len(points) = 2
        /\ res[t].value[1].score > res[t].value[2].score
        /\ \A i \in 1..2 : Has(PayloadOf(points[i]), "chunkIndex")
        /\ res[t].value[1].content = points[2].payload.content
        /\ res[t].value[2].content = points[1].payload.content
        /\ points[1].payload.content # points[2].payload.content

\* the first of the values given: the per-call option, the configured
\* default, the built-in default; Null when none is given
Effective(options, k, cfg, d, builtin) ==
    IF Has(options, k) THEN options[k]
    ELSE IF Has(cfg, d) THEN cfg[d]
    ELSE builtin

\* C13: through the facade, the search is requested with the per-call limit,
\* else the configured defaultRetrievalLimit, else 5, and with the per-call
\* scoreThreshold, else the configured defaultScoreThreshold, else none; the
\* result has at most that many chunks and none scoring under the threshold;
\* the stored configuration keeps the defaults create() was given and never
\* changes once the module is constructed.
C13_OptionsOverDefaults ==
    [][\A t \in Tasks :
        /\ (call[t].op = "retrieveContext" /\ call[t].via = "facade"
                /\ pc[t] = "qembed" /\ pc'[t] = "search") =>
            LET limit == Effective(call[t].options, "limit",
                                   config, "defaultRetrievalLimit", DefaultLimit)
                threshold == Effective(call[t].options, "scoreThreshold",
                                       config, "defaultScoreThreshold", Null)
            IN  /\ loc'[t].request.limit = limit
                /\ Has(loc'[t].request, "score_threshold") <=> threshold # Null
                /\ threshold # Null => loc'[t].request.score_threshold = threshold
        /\ (call[t].op = "retrieveContext" /\ call[t].via = "facade"
                /\ Succeeds(t, "search")) =>
            LET limit == Effective(call[t].options, "limit",
                                   config, "defaultRetrievalLimit", DefaultLimit)
                threshold == Effective(call[t].options, "scoreThreshold",
                                       config, "defaultScoreThreshold", Null)
                found == res'[t].value
            IN  /\ Len(found) <= limit
                /\ threshold # Null => \A i \in 1..Len(found) : found[i].score >= threshold
        /\ (call'[t].op = "create" /\ pc[t] = "idle" /\ pc'[t] = "embSetup") =>
            /\ config'.defaultRetrievalLimit
                    = Effective(call'[t].config, "defaultRetrievalLimit",
                                EmptyObj, "none", DefaultLimit)
            /\ Has(config', "defaultScoreThreshold")
                    <=> Has(call'[t].config, "defaultScoreThreshold")
            /\ Has(config', "defaultScoreThreshold")
                    => config'.defaultScoreThreshold = call'[t].config.defaultScoreThreshold
        /\ constructed => config' = config
      ]_vars

\* on a module configured with defaults (limit 2, threshold 1) a call with
\* its own limit 1 and threshold 2 returned the one chunk scoring 2 out of
\* two stored, the other scoring 1
C13_PerCallOverridesDefaults ==
    \E t \in Tasks :
        /\ call[t].op = "retrieveContext" /\ call[t].via = "facade"
        /\ Done(t) /\ res[t].status = "ok"
        /\ config = validateAndBuildConfig(TunedConfig)
        /\ call[t].options = [limit |-> 1, scoreThreshold |-> 2]
        /\ Len(points) = 2
        /\ Len(res[t].value) = 1
        /\ res[t].value[1].score = 2
        /\ \E i \in 1..2 : Score(loc[t].request.vector, points[i].vector) = 1

\* C14: the chunk of a hit has the content of the hit's payload, the empty
\* string when the hit has no payload or the payload no content, and as
\* metadata the payload without its content key; the chunk has no metadata
\* (rather than an empty one) when nothing else is in the payload.
C14_HitToChunk ==
    [][\A t \in Tasks :
        Succeeds(t, "search") =>
            LET hits == StoreSearch(points, loc[t].request)
                found == res'[t].value
            IN  /\ Len(found) = Len(hits)
                /\ \A i \in 1..Len(hits) :
                        LET payload == PayloadOf(hits[i])
                            others == (DOMAIN payload) \ {"content"}
                        IN  /\ found[i].content = IF Has(payload, "content")
                                                  THEN payload.content ELSE MkText(0)
                            /\ Has(found[i], "metadata") <=> others # {}
                            /\ others # {} =>
                                    /\ DOMAIN found[i].metadata = others
                                    /\ \A k \in others : found[i].metadata[k] = payload[k]
      ]_vars

\* retrieveContext returned a chunk with empty content and no metadata for
\* a point stored without payload, and a chunk with content and no metadata
\* for a point whose payload is its content alone
C14_NoPayloadAndOnlyContent ==
    \E t \in Tasks :
        /\ call[t].op = "retrieveContext" /\ Done(t) /\ res[t].status = "ok"
        /\ points = <<ForeignNoPayload, ForeignOnlyContent>>
        /\ Len(res[t].value) = 2
        /\ res[t].value[1] = [content |-> MkText(0), score |-> 2]
        /\ res[t].value[2] = [content |-> MkText(1), score |-> 1]

\* C15: when retrieveContext is called with a metadata filter, the search
\* request carries the filter and the metadata of every chunk returned
\* satisfies it.
C15_FilterApplied ==
    \A t \in Tasks :
        (call[t].op = "retrieveContext" /\ Has(call[t].options, "filter"))
            => /\ pc[t] = "search" => Has(loc[t].request, "filter")
               /\ (Done(t) /\ res[t].status = "ok") =>
                    \A i \in 1..Len(res[t].value) :
                        /\ Has(res[t].value[i], "metadata")
                        /\ Matches(res[t].value[i].metadata, call[t].options.filter)

\* C16: addDocument embeds and stores the chunks the configured chunking
\* function makes of the content, in order, and those of the fixed-window
\* chunker only when the configuration has no chunkingConfig.
C16_ConfiguredChunkerUsed ==
    \A t \in Tasks :
        (call[t].op = "addDocument" /\ call[t].via = "facade" /\ pc[t] = "upsert") =>
            LET expected == IF Has(config, "chunkingConfig")
                            THEN CustomChunker(call[t].content)
                            ELSE simpleChunker(call[t].content,
                                               DefaultChunkSize, DefaultOverlap)
            IN  /\ Len(loc[t].embeddings) = Len(expected)
                /\ \A j \in 1..Len(loc[t].points) :
                        LET payload == loc[t].points[j].payload
                        IN  payload.content = expected[payload.chunkIndex + 1]

\* C17: getDocumentsByMetadata asks for the first page without cursor and
\* for every further page with the cursor of the page before; it goes on
\* after every page that comes with a cursor and stops at the first page
\* without one; it returns the points of all pages, in page order and with
\* their vectors: every matching point, once.
C17_ScanFollowsEveryCursor ==
    [][\A t \in Tasks :
        /\ (pc[t] = "idle" /\ pc'[t] = "scroll") => (loc'[t].offset = Null /\ loc'[t].acc = <<>>)
        /\ (pc[t] = "scroll" /\ res'[t].status # "error") =>
            LET page == StoreScroll(points, MustFilter(call[t].filter),
                                    ScrollLimit, loc[t].offset)
            IN  /\ loc'[t].acc = loc[t].acc \o page.points
                /\ loc'[t].offset = page.next_page_offset
                /\ pc'[t] = "scroll" <=> page.next_page_offset # Null
                /\ pc'[t] = "scroll" => ncalls'[t].store = ncalls[t].store + 1
        /\ Succeeds(t, "scroll") =>
            LET matching == PointsAt(points, {i \in 1..Len(points) :
                                Matches(PayloadOf(points[i]), call[t].filter)})
                found == res'[t].value
            IN  /\ IdsOf(found) = IdsOf(matching)
                /\ \A i \in 1..Len(matching) : found[i].vector = matching[i].vector
                /\ ncalls[t].store
                        = Max(1, (Len(matching) + BackendPageCap - 1) \div BackendPageCap)
      ]_vars

\* C18: for a filter with at least one key, getDocumentsByMetadata returns
\* the points, and only the points, whose payload equals the filter on every
\* key of the filter; deleteDocumentsByMetadata removes those same points and
\* leaves every other point as it was, in place.
C18_ConjunctiveEqualities ==
    [][\A t \in Tasks :
        /\ (Succeeds(t, "scroll") /\ DOMAIN call[t].filter # {}) =>
            LET f == call[t].filter
                hit == {i \in 1..Len(points) :
                            \A k \in DOMAIN f :
                                /\ Has(PayloadOf(points[i]), k)
                                /\ points[i].payload[k] = f[k]}
                found == res'[t].value
            IN  /\ {found[j].id : j \in 1..Len(found)} = {points[i].id : i \in hit}
                /\ Len(found) = Cardinality(hit)
                /\ \A j \in 1..Len(found) : \A k \in DOMAIN f : found[j].metadata[k] = f[k]
        /\ Succeeds(t, "deleteFilter") =>
            LET f == call[t].filter
                hit == {i \in 1..Len(points) :
                            \A k \in DOMAIN f :
                                /\ Has(PayloadOf(points[i]), k)
                                /\ points[i].payload[k] = f[k]}
            IN  /\ DOMAIN f # {}
                /\ points' = PointsAt(points, (1..Len(points)) \ hit)
                /\ IdsOf(DocumentsByMetadata(points, f)) = IdsOf(PointsAt(points, hit))
                /\ DocumentsByMetadata(points', f) = <<>>
      ]_vars

\* two documents were ingested under the sources a.txt and b.txt, and the
\* scan for source b.txt and chunkIndex 0 returned the second one's point only
C18_OnlySecondDocument ==
    \E t \in Tasks :
        /\ call[t].op = "getDocumentsByMetadata" /\ Done(t) /\ res[t].status = "ok"
        /\ call[t].filter = [source |-> "b.txt", chunkIndex |-> 0]
        /\ Len(points) = 2
        /\ Has(PayloadOf(points[1]), "source") /\ points[1].payload.source = "a.txt"
        /\ Has(PayloadOf(points[1]), "chunkIndex") /\ points[1].payload.chunkIndex = 0
        /\ IdsOf(res[t].value) = <<points[2].id>>
        /\ res[t].value[1].metadata.source = "b.txt"

\* the caller's operation is a delete whose input is empty
EmptyDelete(c) ==
    \/ c.op = "deleteDocumentsByIds" /\ Len(c.ids) = 0
    \/ c.op = "deleteDocumentsByMetadata" /\ DOMAIN c.filter = {}

\* the caller's operation is a delete whose input is not empty
RealDelete(c) ==
    \/ c.op = "deleteDocumentsByIds" /\ Len(c.ids) > 0
    \/ c.op = "deleteDocumentsByMetadata" /\ DOMAIN c.filter # {}

\* C19: on a Ready facade or a provider, deleteDocumentsByIds with no id and
\* deleteDocumentsByMetadata with an empty filter return at once without
\* error, without a store call and with the collection as it was; with an id
\* or a filter key they make one delete request and return when the store
\* has answered it, the points being deleted by then.
C19_EmptyDeleteIsNoOp ==
    [][\A t \in Tasks :
        /\ (EmptyDelete(call'[t]) /\ res'[t].error # MkError(ErrNotInitialized)) =>
            /\ pc'[t] = "idle"
            /\ res'[t] = Ok(<<>>)
            /\ ncalls'[t] = NoCalls
            /\ pc[t] = "idle" => UNCHANGED storeVars
        /\ (RealDelete(call'[t]) /\ res'[t].error # MkError(ErrNotInitialized)) =>
            /\ ncalls'[t] = [NoCalls EXCEPT !.store = 1]
            /\ pc[t] = "idle" =>
                    (pc'[t] # "idle" /\ res'[t] = Pending /\ UNCHANGED storeVars)
            /\ (res'[t].status = "ok" /\ pc[t] # "idle") =>
                    /\ call[t] = call'[t]
                    /\ \A i \in 1..Len(points') :
                            IF call[t].op = "deleteDocumentsByIds"
                            THEN \A j \in 1..Len(call[t].ids) :
                                    points'[i].id # call[t].ids[j]
                            ELSE ~Matches(PayloadOf(points'[i]), call[t].filter)
      ]_vars

\* deleteDocumentsByMetadata with the empty filter returned without a store
\* call while the collection holds two points
C19_EmptyFilterDeletesNothing ==
    \E t \in Tasks :
        /\ call[t].op = "deleteDocumentsByMetadata" /\ DOMAIN call[t].filter = {}
        /\ Done(t) /\ res[t] = Ok(<<>>)
        /\ ncalls[t] = NoCalls
        /\ Len(points) = 2

\* C20: deleteStorage makes one deleteCollection request; it succeeds, the
\* collection being gone, when the store dropped the collection and also
\* when the collection did not exist (the store answered false or a
\* not-found error), and fails, with the store's error wrapped, exactly when
\* the store answered another error.
C20_IdempotentTeardown ==
    [][\A t \in Tasks :
        (call[t].op = "deleteStorage" /\ pc[t] = "deleteCollection" /\ pc'[t] = "idle") =>
            LET answer == loc'[t].result
            IN  /\ ncalls'[t] = [NoCalls EXCEPT !.store = 1]
                /\ answer = "true" <=> (collection.exists /\ ~collection'.exists)
                /\ answer \in {"true", "false", NotFoundMsg}
                    => (res'[t] = Ok(<<>>) /\ ~collection'.exists /\ points' = <<>>)
                /\ answer \notin {"true", "false", NotFoundMsg}
                    => /\ res'[t] = Failed(Wrap(CtxDeleteCollection, MkError(answer)))
                       /\ UNCHANGED storeVars
                /\ ~collection.exists
                    => (answer \in {"false", NotFoundMsg, ConnRefused} /\ UNCHANGED storeVars)
      ]_vars

\* deleteStorage succeeded on a Ready module whose collection was already
\* gone, the store having answered a not-found error
C20_NotFoundSwallowed ==
    \E t \in Tasks :
        /\ call[t].op = "deleteStorage" /\ call[t].via = "facade"
        /\ Done(t) /\ res[t] = Ok(<<>>)
        /\ loc[t].result = NotFoundMsg
        /\ isInitialized
        /\ ~collection.exists

\* the set of the elements of a sequence
Range(seq) == {seq[i] : i \in 1..Len(seq)}

\* C21: of two addDocument calls in flight on one module at the same time
\* with the same content and metadata, neither fails but for a failure of
\* the backend; their ids are disjoint; and once both have returned, each
\* has returned the ids of the points it built, and the collection holds the
\* points of both, each as it was built.
C21_ParallelAddsIndependent ==
    \A t, u \in Tasks :
        (/\ t # u
         /\ call[t].op = "addDocument" /\ call[u].op = "addDocument"
         /\ call[t].via = "facade" /\ call[u].via = "facade"
         /\ call[t].content = call[u].content
         /\ call[t].metadata = call[u].metadata)
        => /\ Range(loc[t].ids) \cap Range(loc[u].ids) = {}
           /\ res[t].status = "error"
                => CauseOf(res[t].error) \in BackendMessages \cup {ErrNotInitialized}
           /\ (Done(t) /\ Done(u) /\ res[t].status = "ok" /\ res[u].status = "ok") =>
                /\ Range(res[t].value) \cap Range(res[u].value) = {}
                /\ res[t].value = IdsOf(loc[t].points)
                /\ Len(res[t].value) = Len(PresentIdx(loc[t].embeddings))
                /\ \A j \in 1..Len(loc[t].points) :
                        /\ IndexOfId(points, loc[t].points[j].id) # 0
                        /\ PointOf(points, loc[t].points[j].id) = loc[t].points[j]
                /\ Len(points) >= Len(res[t].value) + Len(res[u].value)

\* of two addDocument calls with the same content and the same metadata, the
\* one that was given the later id has stored its point and returned while
\* the other, its id taken, still waits for its upsert
C21_BothSetsStored ==
    \E t, u \in Tasks :
        /\ t # u
        /\ call[t].op = "addDocument" /\ call[u].op = "addDocument"
        /\ call[t].content = call[u].content /\ call[t].metadata = call[u].metadata
        /\ pc[t] = "upsert" /\ loc[t].ids = <<1>>
        /\ Done(u) /\ res[u] = Ok(<<2>>)
        /\ IdsOf(points) = <<2>>

\* the window of a text that starts at the 0-based offset from and has at
\* most size characters
Window(text, from, size) ==
    [j \in 1..Max(0, Min(size, Len(text) - from)) |-> text[from + j]]

\* C22: simpleChunker returns the text itself as the only chunk when the
\* text is no longer than chunkSize; otherwise chunk k is the window of at
\* most chunkSize characters at k * (chunkSize - overlap), the last chunk is
\* the first window that reaches the end of the text, every character is in
\* a chunk, and a chunk and the next share overlap characters.
C22_FixedWindowReference ==
    \A t \in Tasks :
        (call[t].op = "simpleChunker" /\ Done(t)) =>
            LET text == call[t].content
                size == call[t].options.chunkSize
                overlap == call[t].options.overlap
                step == size - overlap
                chunks == res[t].value
                n == Len(chunks)
            IN  /\ chunks = simpleChunker(text, size, overlap)
                /\ Len(text) <= size => chunks = <<text>>
                /\ Len(text) > size =>
                    /\ n >= 1
                    /\ \A k \in 0..(n - 1) : chunks[k + 1] = Window(text, k * step, size)
                    /\ \A k \in 0..(n - 1) : (k * step + size >= Len(text)) <=> (k = n - 1)
                    /\ \A p \in 1..Len(text) :
                            \E k \in 0..(n - 1) :
                                k * step < p /\ p <= k * step + Len(chunks[k + 1])
                    /\ \A k \in 0..(n - 2) :
                            /\ k * step + Len(chunks[k + 1]) - (k + 1) * step = overlap
                            /\ Len(chunks[k + 2]) >= overlap
                            /\ SubSeq(chunks[k + 1], Len(chunks[k + 1]) - overlap + 1,
                                      Len(chunks[k + 1]))
                                    = SubSeq(chunks[k + 2], 1, overlap)

\* simpleChunker returned four chunks of a text of eight characters with
\* chunkSize 3 and overlap 1, the last of them shorter than chunkSize
C22_ShortLastWindow ==
    \E t \in Tasks :
        /\ call[t].op = "simpleChunker" /\ Done(t)
        /\ call[t].options = [chunkSize |-> 3, overlap |-> 1]
        /\ Len(call[t].content) = 8
        /\ Len(res[t].value) = 4
        /\ Len(res[t].value[4]) = 2

\* C23: for a non-empty text and an overlap smaller than chunkSize,
\* simpleChunker comes to its end, returns at least one chunk, and every
\* turn of its loop starts its chunk at a greater offset than the turn before.
C23_ChunkerTerminates ==
    /\ \A t \in Tasks :
            (pc[t] = "chunking" /\ call[t].options.overlap < call[t].options.chunkSize)
                ~> (pc[t] = "idle")
    /\ [][\A t \in Tasks :
            /\ (pc[t] = "chunking" /\ pc'[t] = "chunking" /\ loc'[t] # loc[t]
                    /\ call[t].options.overlap < call[t].options.chunkSize) =>
                    /\ loc'[t].offset > loc[t].offset
                    /\ Len(loc'[t].acc) = Len(loc[t].acc) + 1
            /\ (call'[t].op = "simpleChunker" /\ Done(t)' /\ Len(call'[t].content) > 0) =>
                    Len(res'[t].value) >= 1
         ]_vars

\* simpleChunker is in its third turn on a text of eight characters
C23_ThirdTurn ==
    \E t \in Tasks :
        /\ call[t].op = "simpleChunker" /\ pc[t] = "chunking"
        /\ Len(call[t].content) = 8
        /\ call[t].options.overlap > 0
        /\ Len(loc[t].acc) = 2
        /\ loc[t].offset > 0

\* C24: no chunk of simpleChunker is the empty string, whatever the text,
\* so that addDocument neither embeds nor stores a chunk without content.
C24_NoEmptyChunk ==
    \A t \in Tasks :
        /\ call[t].op = "addDocument" /\ pc[t] \in {"embed", "upsert"}
            => \A i \in 1..Len(ChunksOf(t)) : ChunksOf(t)[i] # <<>>
        /\ \A i \in 1..Len(points) :
                Has(PayloadOf(points[i]), "chunkIndex") => points[i].payload.content # <<>>

\* C25: getDocumentsByMetadata comes to its end; when no point matches it
\* has sent one scroll request, whose page is empty and without cursor, and
\* returns the empty list; whenever the last page it read came without
\* cursor it has sent exactly one request per page of the matching points and
\* returns them all. In every case it has sent one request per page it read,
\* and the only page short of the last at which it ends is one that comes
\* with the cursor 0.
C25_ScanTerminates ==
    /\ \A t \in Tasks : (pc[t] = "scroll") ~> (pc[t] = "idle")
    /\ [][\A t \in Tasks :
            LET cap == Min(ScrollLimit, BackendPageCap)
                filter == call'[t].filter
                matching == PointsAt(points, {i \in 1..Len(points) :
                                Matches(PayloadOf(points[i]), filter)})
                n == Len(matching)
                pages == Max(1, (n + cap - 1) \div cap)
                \* the pages that come with a cursor other than 0: another
                \* point follows, and its id is the cursor
                goesOn == {k \in 1..n : k * cap < n /\ matching[k * cap + 1].id # 0}
                \* the first page that does not
                last == CHOOSE k \in 1..(n + 1) :
                            /\ k \notin goesOn
                            /\ \A h \in 1..(k - 1) : h \in goesOn
            IN  /\ (pc'[t] = "scroll" /\ pc[t] # "scroll") => ncalls'[t].store = 1
                /\ (pc'[t] = "scroll" /\ pc[t] = "scroll") =>
                        /\ ncalls'[t].store = ncalls[t].store + 1
                        /\ ncalls'[t].store <= pages
                /\ Succeeds(t, "scroll") =>
                        /\ n = 0 => /\ res'[t].value = <<>>
                                    /\ ncalls'[t].store = 1
                                    /\ loc'[t].offset = Null
                        /\ loc'[t].offset = Null =>
                                /\ ncalls'[t].store = pages
                                /\ IdsOf(res'[t].value) = IdsOf(matching)
                        /\ ncalls'[t].store = last
                        /\ Len(res'[t].value) = Min(last * cap, n)
                        /\ loc'[t].offset \in {Null, 0}
         ]_vars

\* getDocumentsByMetadata returned the empty list after one request, from a
\* collection of two points none of which matches the filter
C25_NoMatchOneRequest ==
    \E t \in Tasks :
        /\ call[t].op = "getDocumentsByMetadata" /\ Done(t) /\ res[t].status = "ok"
        /\ call[t].filter = [source |-> "a.txt"]
        /\ Len(points) = 2
        /\ res[t].value = <<>>
        /\ ncalls[t].store = 1

\* the caller begins an operation in this step
Begins(t) ==
    /\ pc[t] = "idle"
    /\ <<pc[t], call[t], res[t], ncalls[t]>> # <<pc'[t], call'[t], res'[t], ncalls'[t]>>

\* the collection QdrantProvider.initialize creates for a configuration
CreatedFor(cfg) == [exists |-> TRUE, size |-> cfg.vectorSize, distance |-> cfg.distanceMetric]

\* the provider's initialize() throws in this step, to the caller or to the
\* create() that runs it
InitializeThrows(t) ==
    /\ pc[t] \in {"getCollections", "createCollection"}
    /\ \/ res'[t].status = "error"
       \/ pc'[t] = "providerFailed"

\* the provider's initialize() returns from this await in this step, to the
\* caller or to the create() that runs it
InitializeReturns(t, label) ==
    /\ pc[t] = label
    /\ res'[t].status # "error"
    /\ pc'[t] = IF call[t].op = "create" THEN "providerReady" ELSE "idle"

\* C26: initialize() asks for the collections first; it calls
\* createCollection, with the configured vectorSize and distanceMetric, if
\* and only if the configured name is not among them, and sends nothing more
\* for a collection that is there, whatever its size and distance; when it
\* returns the collection exists, and when listing or creating fails it
\* throws and leaves the store as it was.
C26_CreateIffAbsent ==
    [][\A t \in Tasks :
        /\ (Begins(t) /\ call'[t].op \in {"initialize", "create"} /\ pc'[t] # "idle") =>
                /\ pc'[t] \in {"embSetup", "getCollections"}
                /\ ncalls'[t].store = IF pc'[t] = "getCollections" THEN 1 ELSE 0
        /\ (pc'[t] = "createCollection" /\ pc[t] # pc'[t]) =>
                (pc[t] = "getCollections" /\ ~collection.exists)
        /\ (pc[t] = "getCollections" /\ pc'[t] # pc[t] /\ ~InitializeThrows(t)) =>
                /\ pc'[t] = "createCollection" <=> ~collection.exists
                /\ pc'[t] = "createCollection" => ncalls'[t].store = ncalls[t].store + 1
                /\ collection.exists =>
                        /\ InitializeReturns(t, "getCollections")
                        /\ UNCHANGED <<collection, points>>
                        /\ ncalls'[t] = ncalls[t]
        /\ InitializeReturns(t, "createCollection") =>
                /\ ~collection.exists
                /\ collection' = CreatedFor(ProviderConfig(t))
        /\ (InitializeReturns(t, "getCollections")
                \/ InitializeReturns(t, "createCollection")) =>
                /\ collection'.exists
                /\ provState'[ProviderOf(t)] = "Ready"
        /\ InitializeThrows(t) =>
                /\ pc'[t] = IF call[t].op = "create" THEN "providerFailed" ELSE "idle"
                /\ CtxQdrantInit
                        \in Range(IF call[t].op = "create" THEN loc'[t].error
                                                           ELSE res'[t].error)
                /\ UNCHANGED <<collection, points>>
        /\ (call'[t].op = "create" /\ pc[t] # "idle" /\ res'[t].status = "error") =>
                /\ pc[t] = "moduleFailed"
                /\ res'[t].error = loc[t].error
      ]_vars

\* initialize() returned after its one request, the collection of the
\* configured name having another vector size and another distance
C26_ForeignCollectionTrusted ==
    \E t \in Tasks :
        /\ call[t].op = "initialize" /\ Done(t) /\ res[t].status = "ok"
        /\ ncalls[t].store = 1
        /\ collection = ForeignCollection
        /\ collection # CreatedFor(ProviderConfig(t))

\* the object the new call is made on is Ready
ReadyFor(t) ==
    IF call'[t].via = "facade" THEN isInitialized ELSE provState.direct = "Ready"

\* C27: initialize() called when already Ready returns without error, calls
\* neither the Embedding Client nor the Vector Store, and changes neither the
\* lifecycle state nor the collection.
C27_InitializeIdempotent ==
    [][\A t \in Tasks :
        (Begins(t) /\ call'[t].op = "initialize" /\ ReadyFor(t)) =>
            /\ pc'[t] = "idle"
            /\ res'[t].status = "ok"
            /\ ncalls'[t] = NoCalls
            /\ UNCHANGED <<collection, points, provState, isInitialized>>
      ]_vars

C29_ConcurrentInitSafe ==
    \A t \in Tasks :
        (call[t].op = "initialize" /\ Done(t) /\ res[t].status = "error") =>
            CauseOf(res[t].error) # AlreadyExistsMsg

\* C10: a backend failure (the embed call or a store call) makes the
\* operation fail with the underlying error wrapped in the operation's
\* context, after at most one embed call, addDocument returning no ids.
C10_BackendFailuresWrapped ==
    \A t \in Tasks :
        (/\ call[t].op \in ContractOps \ {"deleteStorage"}
         /\ res[t].status = "error"
         /\ CauseOf(res[t].error) \in BackendMessages)
            => /\ res[t].error = Wrap(ContextOf(call[t].op),
                                      MkError(CauseOf(res[t].error)))
               /\ res[t].value = <<>>
               /\ ncalls[t].embed <= 1

====
